---------------------------- MODULE Spec2Model ----------------------------
(***************************************************************************)
(* A model of the propaganda detector's core: the rule-based Score         *)
(* Composer (backend/app.py), the provider gateway (backend/llm_service.py)*)
(* and the LLM-first orchestrator with its response interpreter            *)
(* (backend/llm_analyzer.py).                                              *)
(*                                                                         *)
(* Numbers.  Python floats are modelled as exact fixed-point integers:     *)
(* every score is carried in units of 1/Unit point, Unit a power of ten    *)
(* large enough for 0.8^k and 0.9^k (k <= MaxCount) and for two decimals   *)
(* to be exact.  A score of 12.34 points is 1234 * (Unit \div 100).        *)
(*                                                                         *)
(* Texts.  Every scoring function of the code reads its text only through  *)
(* `keyword in text_lower` and `text_lower.count(keyword)`.  The scoring   *)
(* operators below therefore take the text's signal: the set of lexicon    *)
(* keywords that occur in it and the occurrence count of each.             *)
(***************************************************************************)
EXTENDS Integers, Sequences, FiniteSets, TLC

VARIABLES
    providers,    \* LLMService.providers: the registry, in order
    detector,     \* the module-level PropagandaDetector of app.py
    pc,           \* where the request in flight is: idle, gateway, interpret, done
    request,      \* the request in flight: [text, use_llm, thresholds]
    sweep,        \* the gateway's loop: [available, pos, invoked]
    envelope,     \* what _generate_with_fallback returned, or None
    result,       \* the analysis result of the request, or None
    call,         \* a pure function applied to drawn inputs: [op, in, done, out]
    current_provider_index,   \* LLMService.current_provider_index
    calls         \* concurrent _generate_with_fallback calls: caller -> [pc, sweep, envelope]

vars == << providers, detector, pc, request, sweep, envelope, result, call,
           current_provider_index, calls >>

progvars == << providers, detector, pc, request, sweep, envelope, result,
               current_provider_index, calls >>

---------------------------------------------------------------------------
(* Bounds of the model.                                                    *)

\* Largest match count drawn for one keyword or one lexicon category.
MaxCount == 4

---------------------------------------------------------------------------
(* Arithmetic helpers.                                                     *)

Min(a, b) == IF a < b THEN a ELSE b
Max(a, b) == IF a > b THEN a ELSE b
Abs(a) == IF a < 0 THEN -a ELSE a

RECURSIVE Pow(_, _)
Pow(b, e) == IF e = 0 THEN 1 ELSE b * Pow(b, e - 1)

RECURSIVE SumSeq(_)
SumSeq(s) == IF s = << >> THEN 0 ELSE Head(s) + SumSeq(Tail(s))

SeqToSet(s) == { s[i] : i \in DOMAIN s }

\* One point, in the fixed-point unit of the scores.
Unit == Pow(10, MaxCount)

\* One hundredth of a point.
Cent == Unit \div 100

\* n / d rounded to the nearest integer, ties to even (Python's round), for
\* n >= 0 and d > 0.
RoundDiv(n, d) ==
    LET q == n \div d
        r == n % d
    IN  IF 2 * r < d THEN q
        ELSE IF 2 * r > d THEN q + 1
        ELSE IF q % 2 = 0 THEN q ELSE q + 1

\* round(x, 2) of the score x = n / d (d > 0): the nearest multiple of Cent.
Round2(n, d) ==
    IF n >= 0 THEN RoundDiv(n, d * Cent) * Cent
    ELSE -(RoundDiv(-n, d * Cent) * Cent)

---------------------------------------------------------------------------
(* The lexicon: PropagandaDetector.load_models (app.py 64-87).             *)

\* self.bias_keywords, in the dict's order (app.py 65-75).
bias_keywords ==
    <<
      [category |-> "emotional_high", keywords |-> <<
         "outrageous", "shocking", "devastating", "incredible",
         "unbelievable", "terrifying", "catastrophic", "nightmare",
         "horrifying", "appalling" >>],
      [category |-> "emotional_medium", keywords |-> <<
         "concerning", "troubling", "alarming", "disturbing", "unsettling",
         "worrying", "dangerous", "serious", "critical" >>],
      [category |-> "emotional_subtle", keywords |-> <<
         "questionable", "problematic", "unfortunate", "disappointing",
         "misleading", "concerning", "notable" >>],
      [category |-> "urgency_high", keywords |-> <<
         "immediately", "urgent", "crisis", "emergency", "act now",
         "time is running out", "before it's too late", "right now",
         "this instant" >>],
      [category |-> "urgency_medium", keywords |-> <<
         "soon", "quickly", "don't delay", "limited time", "hurry", "fast",
         "prompt action", "time-sensitive" >>],
      [category |-> "urgency_subtle", keywords |-> <<
         "consider", "think about", "when convenient", "at your earliest",
         "worth noting", "keep in mind" >>],
      [category |-> "fear_triggers", keywords |-> <<
         "threat", "danger", "risk", "harm", "damage", "destroy", "ruin",
         "collapse", "failure", "loss", "attack", "invasion" >>],
      [category |-> "loaded", keywords |-> <<
         "terrorist", "extremist", "radical", "dangerous", "threat",
         "enemy", "traitor", "corrupt", "evil", "villain" >>],
      [category |-> "absolute", keywords |-> <<
         "always", "never", "all", "none", "every", "completely",
         "totally", "entirely", "absolutely", "definitely", "certainly" >>]
    >>

\* self.propaganda_techniques, in the dict's order (app.py 78-87).
propaganda_techniques ==
    <<
      [technique |-> "bandwagon", keywords |-> <<
         "everyone", "popular", "trending", "majority", "most people",
         "standing united", "unite", "together" >>],
      [technique |-> "fear_mongering", keywords |-> <<
         "dangerous", "threat", "risk", "fear", "scared", "terrifying",
         "too late", "before it's too late" >>],
      [technique |-> "strawman", keywords |-> <<
         "claims that", "says that", "believes that", "thinks that" >>],
      [technique |-> "loaded_language", keywords |-> <<
         "devastating", "outrageous", "shocking", "incredible", "lies",
         "hiding the truth", "expose" >>],
      [technique |-> "appeal_to_authority", keywords |-> <<
         "experts say", "studies show", "research proves",
         "scientists agree" >>],
      [technique |-> "conspiracy_theory", keywords |-> <<
         "hiding", "cover up", "conspiracy", "truth",
         "they don't want you to know" >>],
      [technique |-> "call_to_action", keywords |-> <<
         "act now", "take action", "stand up", "fight back", "protect" >>],
      [technique |-> "us_vs_them", keywords |-> <<
         "our freedom", "our rights", "they", "them", "the government",
         "establishment" >>]
    >>

\* analyze_bias's two keyword lists (app.py 309-310).
left_keywords ==
    <<
      "progressive", "liberal", "equality", "social justice", "reform" >>

right_keywords ==
    <<
      "conservative", "traditional", "law and order", "free market",
      "patriot" >>

\* The spelling, character by character, of every keyword of the lexicon
\* and of every technique key: the code searches keywords as substrings of
\* the text, and rewrites technique keys (replace, title, lower) before it
\* compares or searches them.
Chars(k) ==
    CASE k = "outrageous" -> <<"o","u","t","r","a","g","e","o","u","s">>
      [] k = "shocking" -> <<"s","h","o","c","k","i","n","g">>
      [] k = "devastating" -> <<"d","e","v","a","s","t","a","t","i","n","g">>
      [] k = "incredible" -> <<"i","n","c","r","e","d","i","b","l","e">>
      [] k = "unbelievable" -> <<"u","n","b","e","l","i","e","v","a","b","l","e">>
      [] k = "terrifying" -> <<"t","e","r","r","i","f","y","i","n","g">>
      [] k = "catastrophic" -> <<"c","a","t","a","s","t","r","o","p","h","i","c">>
      [] k = "nightmare" -> <<"n","i","g","h","t","m","a","r","e">>
      [] k = "horrifying" -> <<"h","o","r","r","i","f","y","i","n","g">>
      [] k = "appalling" -> <<"a","p","p","a","l","l","i","n","g">>
      [] k = "concerning" -> <<"c","o","n","c","e","r","n","i","n","g">>
      [] k = "troubling" -> <<"t","r","o","u","b","l","i","n","g">>
      [] k = "alarming" -> <<"a","l","a","r","m","i","n","g">>
      [] k = "disturbing" -> <<"d","i","s","t","u","r","b","i","n","g">>
      [] k = "unsettling" -> <<"u","n","s","e","t","t","l","i","n","g">>
      [] k = "worrying" -> <<"w","o","r","r","y","i","n","g">>
      [] k = "dangerous" -> <<"d","a","n","g","e","r","o","u","s">>
      [] k = "serious" -> <<"s","e","r","i","o","u","s">>
      [] k = "critical" -> <<"c","r","i","t","i","c","a","l">>
      [] k = "questionable" -> <<"q","u","e","s","t","i","o","n","a","b","l","e">>
      [] k = "problematic" -> <<"p","r","o","b","l","e","m","a","t","i","c">>
      [] k = "unfortunate" -> <<"u","n","f","o","r","t","u","n","a","t","e">>
      [] k = "disappointing" -> <<"d","i","s","a","p","p","o","i","n","t","i","n","g">>
      [] k = "misleading" -> <<"m","i","s","l","e","a","d","i","n","g">>
      [] k = "notable" -> <<"n","o","t","a","b","l","e">>
      [] k = "immediately" -> <<"i","m","m","e","d","i","a","t","e","l","y">>
      [] k = "urgent" -> <<"u","r","g","e","n","t">>
      [] k = "crisis" -> <<"c","r","i","s","i","s">>
      [] k = "emergency" -> <<"e","m","e","r","g","e","n","c","y">>
      [] k = "act now" -> <<"a","c","t"," ","n","o","w">>
      [] k = "time is running out" -> <<"t","i","m","e"," ","i","s"," ","r","u","n","n","i","n","g"," ","o","u","t">>
      [] k = "before it's too late" -> <<"b","e","f","o","r","e"," ","i","t","'","s"," ","t","o","o"," ","l","a","t","e">>
      [] k = "right now" -> <<"r","i","g","h","t"," ","n","o","w">>
      [] k = "this instant" -> <<"t","h","i","s"," ","i","n","s","t","a","n","t">>
      [] k = "soon" -> <<"s","o","o","n">>
      [] k = "quickly" -> <<"q","u","i","c","k","l","y">>
      [] k = "don't delay" -> <<"d","o","n","'","t"," ","d","e","l","a","y">>
      [] k = "limited time" -> <<"l","i","m","i","t","e","d"," ","t","i","m","e">>
      [] k = "hurry" -> <<"h","u","r","r","y">>
      [] k = "fast" -> <<"f","a","s","t">>
      [] k = "prompt action" -> <<"p","r","o","m","p","t"," ","a","c","t","i","o","n">>
      [] k = "time-sensitive" -> <<"t","i","m","e","-","s","e","n","s","i","t","i","v","e">>
      [] k = "consider" -> <<"c","o","n","s","i","d","e","r">>
      [] k = "think about" -> <<"t","h","i","n","k"," ","a","b","o","u","t">>
      [] k = "when convenient" -> <<"w","h","e","n"," ","c","o","n","v","e","n","i","e","n","t">>
      [] k = "at your earliest" -> <<"a","t"," ","y","o","u","r"," ","e","a","r","l","i","e","s","t">>
      [] k = "worth noting" -> <<"w","o","r","t","h"," ","n","o","t","i","n","g">>
      [] k = "keep in mind" -> <<"k","e","e","p"," ","i","n"," ","m","i","n","d">>
      [] k = "threat" -> <<"t","h","r","e","a","t">>
      [] k = "danger" -> <<"d","a","n","g","e","r">>
      [] k = "risk" -> <<"r","i","s","k">>
      [] k = "harm" -> <<"h","a","r","m">>
      [] k = "damage" -> <<"d","a","m","a","g","e">>
      [] k = "destroy" -> <<"d","e","s","t","r","o","y">>
      [] k = "ruin" -> <<"r","u","i","n">>
      [] k = "collapse" -> <<"c","o","l","l","a","p","s","e">>
      [] k = "failure" -> <<"f","a","i","l","u","r","e">>
      [] k = "loss" -> <<"l","o","s","s">>
      [] k = "attack" -> <<"a","t","t","a","c","k">>
      [] k = "invasion" -> <<"i","n","v","a","s","i","o","n">>
      [] k = "terrorist" -> <<"t","e","r","r","o","r","i","s","t">>
      [] k = "extremist" -> <<"e","x","t","r","e","m","i","s","t">>
      [] k = "radical" -> <<"r","a","d","i","c","a","l">>
      [] k = "enemy" -> <<"e","n","e","m","y">>
      [] k = "traitor" -> <<"t","r","a","i","t","o","r">>
      [] k = "corrupt" -> <<"c","o","r","r","u","p","t">>
      [] k = "evil" -> <<"e","v","i","l">>
      [] k = "villain" -> <<"v","i","l","l","a","i","n">>
      [] k = "always" -> <<"a","l","w","a","y","s">>
      [] k = "never" -> <<"n","e","v","e","r">>
      [] k = "all" -> <<"a","l","l">>
      [] k = "none" -> <<"n","o","n","e">>
      [] k = "every" -> <<"e","v","e","r","y">>
      [] k = "completely" -> <<"c","o","m","p","l","e","t","e","l","y">>
      [] k = "totally" -> <<"t","o","t","a","l","l","y">>
      [] k = "entirely" -> <<"e","n","t","i","r","e","l","y">>
      [] k = "absolutely" -> <<"a","b","s","o","l","u","t","e","l","y">>
      [] k = "definitely" -> <<"d","e","f","i","n","i","t","e","l","y">>
      [] k = "certainly" -> <<"c","e","r","t","a","i","n","l","y">>
      [] k = "everyone" -> <<"e","v","e","r","y","o","n","e">>
      [] k = "popular" -> <<"p","o","p","u","l","a","r">>
      [] k = "trending" -> <<"t","r","e","n","d","i","n","g">>
      [] k = "majority" -> <<"m","a","j","o","r","i","t","y">>
      [] k = "most people" -> <<"m","o","s","t"," ","p","e","o","p","l","e">>
      [] k = "standing united" -> <<"s","t","a","n","d","i","n","g"," ","u","n","i","t","e","d">>
      [] k = "unite" -> <<"u","n","i","t","e">>
      [] k = "together" -> <<"t","o","g","e","t","h","e","r">>
      [] k = "fear" -> <<"f","e","a","r">>
      [] k = "scared" -> <<"s","c","a","r","e","d">>
      [] k = "too late" -> <<"t","o","o"," ","l","a","t","e">>
      [] k = "claims that" -> <<"c","l","a","i","m","s"," ","t","h","a","t">>
      [] k = "says that" -> <<"s","a","y","s"," ","t","h","a","t">>
      [] k = "believes that" -> <<"b","e","l","i","e","v","e","s"," ","t","h","a","t">>
      [] k = "thinks that" -> <<"t","h","i","n","k","s"," ","t","h","a","t">>
      [] k = "lies" -> <<"l","i","e","s">>
      [] k = "hiding the truth" -> <<"h","i","d","i","n","g"," ","t","h","e"," ","t","r","u","t","h">>
      [] k = "expose" -> <<"e","x","p","o","s","e">>
      [] k = "experts say" -> <<"e","x","p","e","r","t","s"," ","s","a","y">>
      [] k = "studies show" -> <<"s","t","u","d","i","e","s"," ","s","h","o","w">>
      [] k = "research proves" -> <<"r","e","s","e","a","r","c","h"," ","p","r","o","v","e","s">>
      [] k = "scientists agree" -> <<"s","c","i","e","n","t","i","s","t","s"," ","a","g","r","e","e">>
      [] k = "hiding" -> <<"h","i","d","i","n","g">>
      [] k = "cover up" -> <<"c","o","v","e","r"," ","u","p">>
      [] k = "conspiracy" -> <<"c","o","n","s","p","i","r","a","c","y">>
      [] k = "truth" -> <<"t","r","u","t","h">>
      [] k = "they don't want you to know" -> <<"t","h","e","y"," ","d","o","n","'","t"," ","w","a","n","t"," ","y","o","u"," ","t","o"," ","k","n","o","w">>
      [] k = "take action" -> <<"t","a","k","e"," ","a","c","t","i","o","n">>
      [] k = "stand up" -> <<"s","t","a","n","d"," ","u","p">>
      [] k = "fight back" -> <<"f","i","g","h","t"," ","b","a","c","k">>
      [] k = "protect" -> <<"p","r","o","t","e","c","t">>
      [] k = "our freedom" -> <<"o","u","r"," ","f","r","e","e","d","o","m">>
      [] k = "our rights" -> <<"o","u","r"," ","r","i","g","h","t","s">>
      [] k = "they" -> <<"t","h","e","y">>
      [] k = "them" -> <<"t","h","e","m">>
      [] k = "the government" -> <<"t","h","e"," ","g","o","v","e","r","n","m","e","n","t">>
      [] k = "establishment" -> <<"e","s","t","a","b","l","i","s","h","m","e","n","t">>
      [] k = "progressive" -> <<"p","r","o","g","r","e","s","s","i","v","e">>
      [] k = "liberal" -> <<"l","i","b","e","r","a","l">>
      [] k = "equality" -> <<"e","q","u","a","l","i","t","y">>
      [] k = "social justice" -> <<"s","o","c","i","a","l"," ","j","u","s","t","i","c","e">>
      [] k = "reform" -> <<"r","e","f","o","r","m">>
      [] k = "conservative" -> <<"c","o","n","s","e","r","v","a","t","i","v","e">>
      [] k = "traditional" -> <<"t","r","a","d","i","t","i","o","n","a","l">>
      [] k = "law and order" -> <<"l","a","w"," ","a","n","d"," ","o","r","d","e","r">>
      [] k = "free market" -> <<"f","r","e","e"," ","m","a","r","k","e","t">>
      [] k = "patriot" -> <<"p","a","t","r","i","o","t">>
      [] k = "bandwagon" -> <<"b","a","n","d","w","a","g","o","n">>
      [] k = "fear_mongering" -> <<"f","e","a","r","_","m","o","n","g","e","r","i","n","g">>
      [] k = "strawman" -> <<"s","t","r","a","w","m","a","n">>
      [] k = "loaded_language" -> <<"l","o","a","d","e","d","_","l","a","n","g","u","a","g","e">>
      [] k = "appeal_to_authority" -> <<"a","p","p","e","a","l","_","t","o","_","a","u","t","h","o","r","i","t","y">>
      [] k = "conspiracy_theory" -> <<"c","o","n","s","p","i","r","a","c","y","_","t","h","e","o","r","y">>
      [] k = "call_to_action" -> <<"c","a","l","l","_","t","o","_","a","c","t","i","o","n">>
      [] k = "us_vs_them" -> <<"u","s","_","v","s","_","t","h","e","m">>
      [] k = "urgency" -> <<"u","r","g","e","n","c","y">>

---------------------------------------------------------------------------
(* Strings the code rewrites: str.lower, str.title, str.replace and the    *)
(* substring test `a in b`, on character sequences.                        *)

LowerCase == <<"a","b","c","d","e","f","g","h","i","j","k","l","m",
               "n","o","p","q","r","s","t","u","v","w","x","y","z">>
UpperCase == <<"A","B","C","D","E","F","G","H","I","J","K","L","M",
               "N","O","P","Q","R","S","T","U","V","W","X","Y","Z">>

IsLower(c) == \E i \in DOMAIN LowerCase : LowerCase[i] = c
IsUpper(c) == \E i \in DOMAIN UpperCase : UpperCase[i] = c
IsAlpha(c) == IsLower(c) \/ IsUpper(c)

ToLower(c) ==
    IF IsUpper(c) THEN LowerCase[CHOOSE i \in DOMAIN UpperCase : UpperCase[i] = c]
    ELSE c
ToUpper(c) ==
    IF IsLower(c) THEN UpperCase[CHOOSE i \in DOMAIN LowerCase : LowerCase[i] = c]
    ELSE c

\* s.lower()
lower(s) == [i \in DOMAIN s |-> ToLower(s[i])]

\* s.title(): a letter that follows a non-letter is upper-cased, every other
\* letter lower-cased.
title(s) ==
    [i \in DOMAIN s |->
        IF i = 1 \/ ~IsAlpha(s[i - 1]) THEN ToUpper(s[i]) ELSE ToLower(s[i])]

\* s.replace(a, b) for single characters a and b.
replace(s, a, b) == [i \in DOMAIN s |-> IF s[i] = a THEN b ELSE s[i]]

\* Whether needle occurs in hay at index i (1-based).
OccursAt(hay, needle, i) ==
    /\ i >= 1
    /\ i + Len(needle) - 1 <= Len(hay)
    /\ \A j \in 1..Len(needle) : hay[i + j - 1] = needle[j]

\* needle in hay
Contains(hay, needle) == \E i \in 1..(Len(hay) + 1) : OccursAt(hay, needle, i)

---------------------------------------------------------------------------
(* The signal of a text: what the scoring functions read of it.            *)
(*   present  the lexicon keywords k with `k in text_lower`                *)
(*   count    text_lower.count(k) for each of them (0 for the others)      *)

KeywordsOf(category) ==
    (CHOOSE e \in SeqToSet(bias_keywords) : e.category = category).keywords

\* sum(1 for keyword in keywords if keyword in text_lower)
MatchCount(keywords, sig) ==
    Cardinality({ i \in DOMAIN keywords : keywords[i] \in sig.present })

\* [keyword for keyword in keywords if keyword in text_lower]
Matched(keywords, sig) ==
    LET Hit(k) == k \in sig.present IN SelectSeq(keywords, Hit)

---------------------------------------------------------------------------
(* Score Composer: the capped diminishing-returns contribution             *)
(*     weight * min(count, 3) * (decay ** max(0, count - 1))               *)
(* of app.py 206 (decay 0.8) and app.py 343 (decay 0.9); decay is given in *)
(* tenths.  Exact for count <= MaxCount + 1.                               *)

weighted_score(weight, count, decay) ==
    weight * Min(count, 3) * Pow(decay, Max(0, count - 1))
        * Pow(10, MaxCount - Max(0, count - 1))

EmotionalDecay == 8
UrgencyDecay == 9

---------------------------------------------------------------------------
(* analyze_emotional_triggers (app.py 212-264): the four trigger lists.    *)
(* The positions of each trigger are those of find_keyword_positions.      *)

TriggersOf(category, sig) ==
    LET ks == Matched(KeywordsOf(category), sig)
    IN  [i \in DOMAIN ks |-> [trigger |-> ks[i], category |-> category]]

analyze_emotional_triggers(sig) ==
    [ fear_appeals |-> TriggersOf("fear_triggers", sig),
      urgency_markers |->
          TriggersOf("urgency_high", sig) \o TriggersOf("urgency_medium", sig)
              \o TriggersOf("urgency_subtle", sig),
      emotional_language |->
          TriggersOf("emotional_high", sig) \o TriggersOf("emotional_medium", sig)
              \o TriggersOf("emotional_subtle", sig),
      psychological_pressure |-> TriggersOf("absolute", sig) ]

---------------------------------------------------------------------------
(* Emotional intensity.                                                    *)

\* The weights of calculate_enhanced_emotional_intensity (app.py 188-198).
EmotionalWeight(category) ==
    CASE category = "emotional_high" -> 25
      [] category = "emotional_medium" -> 15
      [] category = "emotional_subtle" -> 8
      [] category = "urgency_high" -> 20
      [] category = "urgency_medium" -> 12
      [] category = "urgency_subtle" -> 5
      [] category = "fear_triggers" -> 18
      [] category = "loaded" -> 15
      [] category = "absolute" -> 10

\* calculate_enhanced_emotional_intensity (app.py 182-210); every category
\* of bias_keywords has a weight.
calculate_enhanced_emotional_intensity(sig, base_intensity) ==
    LET Add(i) ==
            LET count == MatchCount(bias_keywords[i].keywords, sig)
            IN  IF count > 0
                THEN weighted_score(EmotionalWeight(bias_keywords[i].category),
                                    count, EmotionalDecay)
                ELSE 0
    IN  Min(base_intensity + SumSeq([i \in DOMAIN bias_keywords |-> Add(i)]),
            100 * Unit)

\* _basic_emotional_analysis (app.py 163-180): the keyword-only path.
BasicIntensityStep == 15

basic_emotional_analysis(sig) ==
    LET emotional_keywords ==
            KeywordsOf("emotional_high") \o KeywordsOf("emotional_medium")
                \o KeywordsOf("urgency_high")
        emotion_count == MatchCount(emotional_keywords, sig)
        basic_intensity == Min(emotion_count * BasicIntensityStep, 100) * Unit
    IN  [ emotional_intensity |-> basic_intensity,
          base_sentiment_intensity |-> basic_intensity,
          emotional_analysis |-> analyze_emotional_triggers(sig) ]

\* analyze_sentiment (app.py 138-158) once the sentiment pipeline has
\* answered: base is max(positive, negative) * 100.
model_emotional_analysis(sig, base_intensity) ==
    [ emotional_intensity |->
          Round2(calculate_enhanced_emotional_intensity(sig, base_intensity), 1),
      base_sentiment_intensity |-> Round2(base_intensity, 1),
      emotional_analysis |-> analyze_emotional_triggers(sig) ]

---------------------------------------------------------------------------
(* Urgency: analyze_urgency (app.py 325-347).                              *)

UrgencyWeight(category) ==
    CASE category = "urgency_high" -> 25
      [] category = "urgency_medium" -> 15
      [] category = "urgency_subtle" -> 8

UrgencyCategories == <<"urgency_high", "urgency_medium", "urgency_subtle">>

UrgencySum(sig) ==
    LET OfKeyword(category, k) ==
            IF sig.count[k] > 0
            THEN weighted_score(UrgencyWeight(category), sig.count[k], UrgencyDecay)
            ELSE 0
        OfCategory(category) ==
            LET ks == KeywordsOf(category)
            IN  SumSeq([i \in DOMAIN ks |-> OfKeyword(category, ks[i])])
    IN  SumSeq([i \in DOMAIN UrgencyCategories |-> OfCategory(UrgencyCategories[i])])

analyze_urgency_uncapped(sig) == UrgencySum(sig)

analyze_urgency(sig) == Min(UrgencySum(sig), 100 * Unit)

---------------------------------------------------------------------------
(* Ideological bias: analyze_bias (app.py 306-323).                        *)

analyze_bias(sig) ==
    LET left_count == MatchCount(left_keywords, sig)
        right_count == MatchCount(right_keywords, sig)
        total_bias_indicators == left_count + right_count
    IN  IF total_bias_indicators = 0 THEN 0
        ELSE Round2((right_count - left_count) * 100 * Unit,
                    total_bias_indicators)

---------------------------------------------------------------------------
(* Technique findings: detect_propaganda_techniques (app.py 278-304).      *)
(* A keyword that is in the text has at least one position, so a finding   *)
(* is appended for every keyword present.  Confidence is in tenths.        *)

StaticConfidence == 8

RECURSIVE Flatten(_)
Flatten(ss) == IF ss = << >> THEN << >> ELSE Head(ss) \o Flatten(Tail(ss))

detect_propaganda_techniques(sig) ==
    LET FindingsOf(entry) ==
            LET ks == Matched(entry.keywords, sig)
            IN  [i \in DOMAIN ks |->
                    [ technique |-> title(replace(Chars(entry.technique), "_", " ")),
                      keyword |-> ks[i],
                      confidence |-> StaticConfidence ]]
    IN  Flatten([t \in DOMAIN propaganda_techniques |->
                    FindingsOf(propaganda_techniques[t])])

---------------------------------------------------------------------------
(* Propaganda risk: calculate_propaganda_risk_score (app.py 470-506).      *)

technique_weights ==
    << [technique |-> "fear_mongering", weight |-> 15],
       [technique |-> "conspiracy_theory", weight |-> 12],
       [technique |-> "loaded_language", weight |-> 10],
       [technique |-> "call_to_action", weight |-> 8],
       [technique |-> "us_vs_them", weight |-> 10],
       [technique |-> "bandwagon", weight |-> 7],
       [technique |-> "appeal_to_authority", weight |-> 6],
       [technique |-> "strawman", weight |-> 8] >>

DefaultTechniqueWeight == 5

\* technique_weights.get(technique_name, 5)
TechniqueWeight(technique_name) ==
    LET hits == { i \in DOMAIN technique_weights :
                    Chars(technique_weights[i].technique) = technique_name }
    IN  IF hits = {} THEN DefaultTechniqueWeight
        ELSE technique_weights[CHOOSE i \in hits : TRUE].weight

\* The diversity bonus (app.py 501-504), in tenths: the first branch that
\* is true is taken, so the 1.4 of the second is never applied.
DiversityFactor(distinct_types) ==
    IF distinct_types >= 3 THEN 12
    ELSE IF distinct_types >= 5 THEN 14
    ELSE 10

PropagandaSum(techniques) ==
    LET Name(i) == replace(lower(techniques[i].technique), " ", "_")
        technique_types == { Name(i) : i \in DOMAIN techniques }
        score == SumSeq([i \in DOMAIN techniques |->
                    TechniqueWeight(Name(i)) * techniques[i].confidence
                        * (Unit \div 10)])
    IN  (score * DiversityFactor(Cardinality(technique_types))) \div 10

calculate_propaganda_risk_score(techniques) ==
    IF techniques = << >> THEN 0
    ELSE Min(PropagandaSum(techniques), 100 * Unit)

---------------------------------------------------------------------------
(* Combination bonus: calculate_combination_risk (app.py 508-543).         *)
(* emotional_analysis is the trigger record, or None.                      *)

None == [none |-> TRUE]

dangerous_combos ==
    << [techniques |-> <<"fear_mongering", "call_to_action">>, bonus |-> 20],
       [techniques |-> <<"conspiracy_theory", "us_vs_them">>, bonus |-> 18],
       [techniques |-> <<"loaded_language", "bandwagon">>, bonus |-> 15],
       [techniques |-> <<"fear_mongering", "conspiracy_theory">>, bonus |-> 25],
       [techniques |-> <<"call_to_action", "urgency">>, bonus |-> 12] >>

TriggerDiversityBonus == 10
CombinationCap == 40

\* all(any(combo_tech in tech for tech in technique_names) for combo_tech in combo)
ComboPresent(combo, technique_names) ==
    \A c \in DOMAIN combo.techniques :
        \E t \in DOMAIN technique_names :
            Contains(technique_names[t], Chars(combo.techniques[c]))

calculate_combination_risk(techniques, emotional_analysis) ==
    IF techniques = << >> \/ emotional_analysis = None THEN 0
    ELSE
        LET technique_names ==
                [i \in DOMAIN techniques |-> lower(techniques[i].technique)]
            combos == SumSeq([i \in DOMAIN dangerous_combos |->
                        IF ComboPresent(dangerous_combos[i], technique_names)
                        THEN dangerous_combos[i].bonus ELSE 0])
            trigger_categories ==
                (IF emotional_analysis.fear_appeals # << >> THEN 1 ELSE 0)
              + (IF emotional_analysis.urgency_markers # << >> THEN 1 ELSE 0)
              + (IF emotional_analysis.emotional_language # << >> THEN 1 ELSE 0)
              + (IF emotional_analysis.psychological_pressure # << >> THEN 1 ELSE 0)
            risk_score ==
                combos + (IF trigger_categories >= 3 THEN TriggerDiversityBonus ELSE 0)
        IN  Min(risk_score, CombinationCap) * Unit

---------------------------------------------------------------------------
(* Overall score: calculate_overall_score (app.py 440-468).  The weights   *)
(* are in hundredths.                                                      *)

EmotionalShare == 25
BiasShare == 15
UrgencyShare == 20
PropagandaShare == 25
CombinationShare == 15

calculate_overall_score(emotional_intensity, bias_score, urgency_score, techniques, emotional_analysis) ==
    LET normalized_bias == Abs(bias_score)
        propaganda_score == calculate_propaganda_risk_score(techniques)
        combination_score == calculate_combination_risk(techniques, emotional_analysis)
        overall_score ==
            emotional_intensity * EmotionalShare
          + normalized_bias * BiasShare
          + urgency_score * UrgencyShare
          + propaganda_score * PropagandaShare
          + combination_score * CombinationShare
    IN  Round2(Min(overall_score, 100 * 100 * Unit), 100)

---------------------------------------------------------------------------
(* Risk tier: get_risk_level (app.py 545-556).  A thresholds argument is   *)
(* None or a dict, a function whose domain is the set of keys it holds;    *)
(* threshold values are in points.  thresholds['low'] on a dict without    *)
(* the key raises KeyError, and thresholds['medium'] is evaluated only     *)
(* when the first comparison is false.                                     *)

DefaultLow == 34
DefaultMedium == 67
DefaultThresholds == [low |-> DefaultLow, medium |-> DefaultMedium]

get_risk_level_inclusive(score, thresholds) ==
    LET th == IF thresholds = None THEN DefaultThresholds ELSE thresholds
    IN  IF "low" \notin DOMAIN th THEN "KeyError"
        ELSE IF score <= th.low * Unit THEN "low"
        ELSE IF "medium" \notin DOMAIN th THEN "KeyError"
        ELSE IF score <= th.medium * Unit THEN "medium"
        ELSE "high"

get_risk_level(score, thresholds) ==
    LET th == IF thresholds = None THEN DefaultThresholds ELSE thresholds
    IN  IF "low" \notin DOMAIN th THEN "KeyError"
        ELSE IF score < th.low * Unit THEN "low"
        ELSE IF "medium" \notin DOMAIN th THEN "KeyError"
        ELSE IF score < th.medium * Unit THEN "medium"
        ELSE "high"

---------------------------------------------------------------------------
(* Signal extraction: `keyword in text_lower` and text_lower.count(keyword)*)
(* over the lower-cased text, as every scoring function of app.py does     *)
(* (app.py 165-172, 184-203, 214-262, 281-294, 312-314, 328-340).          *)

\* hay.count(needle): occurrences that do not overlap, scanned from the left.
RECURSIVE CountFrom(_, _, _)
CountFrom(hay, needle, i) ==
    IF i + Len(needle) - 1 > Len(hay) THEN 0
    ELSE IF OccursAt(hay, needle, i)
         THEN 1 + CountFrom(hay, needle, i + Len(needle))
         ELSE CountFrom(hay, needle, i + 1)

AllKeywords ==
    UNION { SeqToSet(bias_keywords[i].keywords) : i \in DOMAIN bias_keywords }
    \cup UNION { SeqToSet(propaganda_techniques[i].keywords) :
                    i \in DOMAIN propaganda_techniques }
    \cup SeqToSet(left_keywords) \cup SeqToSet(right_keywords)

Extract(text) ==
    LET text_lower == lower(text)
    IN  [ present |-> { k \in AllKeywords : Contains(text_lower, Chars(k)) },
          count |-> [k \in AllKeywords |-> CountFrom(text_lower, Chars(k), 1)] ]

\* The phrases texts are drawn from, spelled character by character.
Vocabulary ==
    <<
      \* Everyone
      <<"E","v","e","r","y","o","n","e">>,
      \* act now
      <<"a","c","t"," ","n","o","w">>,
      \* urgent crisis emergency
      <<"u","r","g","e","n","t"," ","c","r","i","s","i","s"," ","e","m","e","r","g","e","n","c","y">>,
      \* a shocking threat
      <<"a"," ","s","h","o","c","k","i","n","g"," ","t","h","r","e","a","t">>,
      \* patriot
      <<"p","a","t","r","i","o","t">>,
      \* liberal reform
      <<"l","i","b","e","r","a","l"," ","r","e","f","o","r","m">>,
      \* they are hiding the truth
      <<"t","h","e","y"," ","a","r","e"," ","h","i","d","i","n","g"," ","t","h","e"," ","t","r","u","t","h">>,
      \* calm words
      <<"c","a","l","m"," ","w","o","r","d","s">>
    >>

\* A text dense in technique keywords:
\* dangerous threat risk fear scared terrifying too late they are hiding the truth
DenseText ==
    <<"d","a","n","g","e","r","o","u","s"," ","t","h","r","e","a","t"," ","r","i","s","k"," ","f","e","a","r"," ","s","c","a","r","e","d"," ","t","e","r","r","i","f","y","i","n","g"," ","t","o","o"," ","l","a","t","e"," ","t","h","e","y"," ","a","r","e"," ","h","i","d","i","n","g"," ","t","h","e"," ","t","r","u","t","h">>


\* A text of three trigger categories and no technique keyword:
\* always a serious danger
TriggerText ==
    <<"a","l","w","a","y","s"," ","a"," ","s","e","r","i","o","u","s"," ","d","a","n","g","e","r">>
---------------------------------------------------------------------------
(* Provider content and the Response Interpreter:                          *)
(* LLMPropagandaAnalyzer._parse_llm_response (llm_analyzer.py 84-113).     *)
(*                                                                         *)
(* A content string is a sequence of tokens: braces, commas, white space,  *)
(* code-fence markers, prose (text without braces that is no JSON), JSON   *)
(* scalars, and members ("key": value) of a JSON object.                   *)

LBrace == [t |-> "{"]
RBrace == [t |-> "}"]
Comma == [t |-> ","]
LBracket == [t |-> "["]
RBracket == [t |-> "]"]
WhiteSpace == [t |-> "ws"]
Fence == [t |-> "fence"]
FenceJson == [t |-> "fence_json"]
Prose(text) == [t |-> "prose", text |-> text]
Number(n) == [t |-> "number", value |-> n]
Member(key, value) == [t |-> "member", key |-> key, value |-> value]

\* Python values json.loads returns at the top level.
PyDict(items) == [type |-> "dict", items |-> items]
PyNumber(n) == [type |-> "number", value |-> n]
PyList(items) == [type |-> "list", items |-> items]

\* content.strip()
RECURSIVE LStrip(_)
LStrip(s) == IF s # << >> /\ Head(s) = WhiteSpace THEN LStrip(Tail(s)) ELSE s

RECURSIVE RStrip(_)
RStrip(s) ==
    IF s # << >> /\ s[Len(s)] = WhiteSpace THEN RStrip(SubSeq(s, 1, Len(s) - 1))
    ELSE s

strip(s) == RStrip(LStrip(s))

\* content.find('{') and content.rfind('}'), 1-based; 0 when there is none.
find(s, tok) ==
    IF \E i \in DOMAIN s : s[i] = tok
    THEN CHOOSE i \in DOMAIN s : s[i] = tok /\ \A j \in 1..(i - 1) : s[j] # tok
    ELSE 0

rfind(s, tok) ==
    IF \E i \in DOMAIN s : s[i] = tok
    THEN CHOOSE i \in DOMAIN s : s[i] = tok /\ \A j \in (i + 1)..Len(s) : s[j] # tok
    ELSE 0

\* The two replace calls that remove the code-fence markers.
RemoveFences(s) ==
    LET Keep(tok) == tok # Fence /\ tok # FenceJson IN SelectSeq(s, Keep)

\* The dict of a member list: a later member overrides an earlier one with
\* the same key.
DictOf(members) ==
    [k \in { members[i].key : i \in DOMAIN members } |->
        members[CHOOSE i \in DOMAIN members :
                    /\ members[i].key = k
                    /\ \A j \in (i + 1)..Len(members) : members[j].key # k].value]

\* json.loads of one number or one object { member, member, ... }, white
\* space removed.
LoadsValue(toks) ==
    LET n == Len(toks)
        inner == SubSeq(toks, 2, n - 1)
        IsMemberList ==
            \/ inner = << >>
            \/ /\ Len(inner) % 2 = 1
               /\ \A i \in DOMAIN inner :
                    IF i % 2 = 1 THEN inner[i].t = "member" ELSE inner[i] = Comma
        MembersOf ==
            LET IsMember(tok) == tok.t = "member" IN SelectSeq(inner, IsMember)
    IN  IF n = 1 /\ toks[1].t = "number"
        THEN [ok |-> TRUE, value |-> PyNumber(toks[1].value)]
        ELSE IF n >= 2 /\ toks[1] = LBrace /\ toks[n] = RBrace /\ IsMemberList
        THEN [ok |-> TRUE, value |-> PyDict(DictOf(MembersOf))]
        ELSE [ok |-> FALSE]

\* The elements of an array, separated by commas: each a number or an
\* object.
RECURSIVE LoadsElements(_)
LoadsElements(toks) ==
    IF toks = << >> THEN [ok |-> FALSE]
    ELSE LET end == IF toks[1] = LBrace THEN find(toks, RBrace) ELSE 1
             first == LoadsValue(SubSeq(toks, 1, end))
             rest == LoadsElements(SubSeq(toks, end + 2, Len(toks)))
         IN  IF end = 0 \/ ~first.ok THEN [ok |-> FALSE]
             ELSE IF end = Len(toks) THEN [ok |-> TRUE, values |-> << first.value >>]
             ELSE IF toks[end + 1] # Comma \/ ~rest.ok THEN [ok |-> FALSE]
             ELSE [ok |-> TRUE, values |-> << first.value >> \o rest.values]

\* json.loads(s): [ok |-> TRUE, value |-> v], or [ok |-> FALSE] where it
\* raises JSONDecodeError.  White space between tokens is skipped; the text
\* must be one number, one object, or one array [ element, element, ... ].
JsonLoads(s) ==
    LET NotSpace(tok) == tok # WhiteSpace
        toks == SelectSeq(s, NotSpace)
        n == Len(toks)
        elements == LoadsElements(SubSeq(toks, 2, n - 1))
    IN  IF n >= 2 /\ toks[1] = LBracket /\ toks[n] = RBracket
        THEN IF n = 2 THEN [ok |-> TRUE, value |-> PyList(<< >>)]
             ELSE IF elements.ok THEN [ok |-> TRUE, value |-> PyList(elements.values)]
             ELSE [ok |-> FALSE]
        ELSE LoadsValue(toks)

\* What a call ends with: a returned value, or an exception raised to the
\* caller.
Returned(v) == [raised |-> FALSE, value |-> v]
Raised(e) == [raised |-> TRUE, error |-> e]

\* The candidate text json.loads is given: the fence-free substring from the
\* first '{' to the last '}' when both exist in that order, else the whole
\* stripped content.
JsonCandidate(content) ==
    LET stripped == strip(content)
        start_idx == find(stripped, LBrace)
        end_idx == rfind(stripped, RBrace)
    IN  IF start_idx # 0 /\ end_idx > start_idx
        THEN RemoveFences(SubSeq(stripped, start_idx, end_idx))
        ELSE stripped

parse_llm_response_unguarded(content) ==
    LET r == JsonLoads(JsonCandidate(content))
    IN  IF r.ok THEN Returned(r.value) ELSE Raised("JSONDecodeError")

\* Every exception is caught (llm_analyzer.py 107-113) and None returned.
parse_llm_response(content) ==
    LET r == JsonLoads(JsonCandidate(content))
    IN  IF r.ok THEN Returned(r.value) ELSE Returned(None)

---------------------------------------------------------------------------
(* The score record of _rule_based_analysis (app.py 598-614).  sentiment   *)
(* is None on the keyword-only path and [base |-> b] when the sentiment    *)
(* pipeline answered with max(positive, negative) * 100 = b.               *)

score_record(sig, sentiment, thresholds) ==
    LET sentiment_analysis ==
            IF sentiment = None THEN basic_emotional_analysis(sig)
            ELSE model_emotional_analysis(sig, sentiment.base)
        propaganda_techniques_found == detect_propaganda_techniques(sig)
        bias_score == analyze_bias(sig)
        urgency_score == analyze_urgency(sig)
        overall_score ==
            calculate_overall_score(sentiment_analysis.emotional_intensity,
                                    bias_score, urgency_score,
                                    propaganda_techniques_found,
                                    sentiment_analysis.emotional_analysis)
    IN  [ overall_score |-> overall_score,
          risk_level |-> get_risk_level(overall_score, thresholds),
          emotional_intensity |-> sentiment_analysis.emotional_intensity,
          ideological_bias |-> bias_score,
          urgency_score |-> urgency_score,
          propaganda_techniques |-> propaganda_techniques_found,
          emotional_analysis |-> sentiment_analysis.emotional_analysis,
          propaganda_risk |->
              calculate_propaganda_risk_score(propaganda_techniques_found),
          combination_bonus |->
              calculate_combination_risk(propaganda_techniques_found,
                                         sentiment_analysis.emotional_analysis) ]

---------------------------------------------------------------------------
(* Inputs the pure functions are applied to.                               *)

\* Longest text drawn, in phrases.
MaxWords == 2

Space == <<" ">>

RECURSIVE Join(_)
Join(words) ==
    IF words = << >> THEN << >>
    ELSE IF Len(words) = 1 THEN Head(words)
    ELSE Head(words) \o Space \o Join(Tail(words))

PhraseSeqs ==
    UNION { [1..n -> DOMAIN Vocabulary] : n \in 1..MaxWords }

\* "Everyone act now Everyone act now": a bandwagon keyword and a
\* call-to-action keyword, twice each.
PressureText ==
    Join(<< Vocabulary[1], Vocabulary[2], Vocabulary[1], Vocabulary[2] >>)

Texts == { Join([i \in DOMAIN ws |-> Vocabulary[ws[i]]]) : ws \in PhraseSeqs }
            \cup { DenseText, PressureText, TriggerText }

\* The signal of every text drawn, extracted once.
SignalOf == [t \in Texts |-> Extract(t)]

\* max(positive, negative) * 100 of the sentiment pipeline, in points.
SentimentBases == { 0, 45, 100 }

Sentiments == { None } \cup { [base |-> b * Unit] : b \in SentimentBases }

\* Threshold values callers pass, in points.
ThresholdValues == { 20, 34, 50, 67 }

Keys == { "low", "medium" }

\* A thresholds argument: None, or a dict over any subset of the two keys.
ThresholdArgs ==
    { None } \cup UNION { [S -> ThresholdValues] : S \in SUBSET Keys }

\* Scores at, just below and just above every threshold value.
ScoreSamples ==
    { 0, 100 * Unit }
    \cup { v * Unit + d * Cent : v \in ThresholdValues, d \in { -1, 0, 1 } }

SubScoreGrid == { 0, 50 * Unit, 100 * Unit }
BiasGrid == { -100 * Unit, 0, 100 * Unit }

Weights == { 5, 8, 10, 12, 15, 18, 20, 25 }

\* Longest provider content drawn, in tokens.
MaxTokens == 4

Tokens ==
    { LBrace, RBrace, Comma, WhiteSpace, Fence, Prose("text"), Number(42),
      Member("overall_risk_score", 10 * Unit) }

\* JSON arrays: of two records, of one record, of a number, of nothing.
ListContents ==
    LET Record == << LBrace, Member("overall_risk_score", 10 * Unit), RBrace >>
    IN  { << LBracket >> \o Record \o << Comma >> \o Record \o << RBracket >>,
          << LBracket >> \o Record \o << RBracket >>,
          << LBracket, Number(42), RBracket >>,
          << LBracket, RBracket >> }

Contents == UNION { [1..n -> Tokens] : n \in 0..MaxTokens } \cup ListContents

\* The top-level fields analyze_text_comprehensive reads from the record.
RecordFields ==
    { "overall_risk_score", "risk_level", "emotional_intensity", "urgency_score",
      "ideological_bias", "propaganda_techniques", "emotional_triggers",
      "entity_analysis" }

\* Confidences a provider may write in a technique finding, in tenths: the
\* prompt asks for 0-1 (llm_service.py 287), nothing enforces it.
ProviderConfidences == { -5, 0, 9, 10, 15 }

\* The technique types of the severity table.
TechniqueTypes == { technique_weights[i].technique : i \in DOMAIN technique_weights }

\* How often each type drawn is found in the text.
MaxFindings == 2

PureInputs ==
    { [op |-> "calculate_propaganda_risk_score",
       in |-> [types |-> S, findings |-> n]] :
        S \in SUBSET TechniqueTypes, n \in 1..MaxFindings }
    \cup
    { [op |-> "get_risk_level", in |-> [score |-> s, thresholds |-> th]] :
        s \in ScoreSamples, th \in ThresholdArgs }
    \cup
    { [op |-> "weighted_score", in |-> [weight |-> w, count |-> c, decay |-> d]] :
        w \in Weights, c \in 0..(MaxCount + 1), d \in { EmotionalDecay, UrgencyDecay } }
    \cup
    { [op |-> "score_record", in |-> [text |-> t, sentiment |-> s]] :
        t \in Texts, s \in Sentiments }
    \cup
    { [op |-> "calculate_overall_score",
       in |-> [emotional_intensity |-> e, bias_score |-> b, urgency_score |-> u,
               text |-> t]] :
        e \in SubScoreGrid, b \in BiasGrid, u \in SubScoreGrid, t \in Texts }
    \cup
    { [op |-> "parse_llm_response", in |-> [content |-> c]] : c \in Contents }
    \cup
    { [op |-> "analyze_text_comprehensive", in |-> [fields |-> S, confidence |-> c]] :
        S \in SUBSET RecordFields, c \in ProviderConfidences }

---------------------------------------------------------------------------
(* The provider registry: LLMService.__init__ (llm_service.py 257-263).    *)
(* A provider is described by its class and by what is_available()         *)
(* answers.  GroqProvider and OpenRouterProvider are available when their  *)
(* API key is set; MockLLMProvider always is.  "LLMProvider" stands for    *)
(* any other implementation of the abstract class put in the registry.     *)

\* Longest registry of substituted providers.
MaxProviders == 3

Provider(cls, available) == [cls |-> cls, available |-> available]

\* [GroqProvider(), OpenRouterProvider(), MockLLMProvider()]
DefaultProviders(groq_key, openrouter_key) ==
    << Provider("GroqProvider", groq_key),
       Provider("OpenRouterProvider", openrouter_key),
       Provider("MockLLMProvider", TRUE) >>

Registries ==
    { DefaultProviders(g, o) : g \in BOOLEAN, o \in BOOLEAN }
    \cup UNION { [1..n -> { Provider("LLMProvider", a) : a \in BOOLEAN }] :
                    n \in 0..MaxProviders }

get_available_providers_all(registry) == [i \in DOMAIN registry |-> i]

\* get_available_providers (llm_service.py 265-267): the registry indices
\* of the available providers, in registry order.
get_available_providers(registry) ==
    LET Avail(i) == registry[i].available
    IN  SelectSeq([i \in DOMAIN registry |-> i], Avail)

\* LLMResponse.provider of each class.
ProviderName(cls) ==
    CASE cls = "GroqProvider" -> "groq"
      [] cls = "OpenRouterProvider" -> "openrouter"
      [] cls = "MockLLMProvider" -> "mock"
      [] OTHER -> "custom"

---------------------------------------------------------------------------
(* Contents a provider answers with.  Numbers of the JSON text are points; *)
(* the scores are written here in the fixed-point unit.                    *)

\* The canned JSON of MockLLMProvider.generate (llm_service.py 165-240).
MockContent ==
    << LBrace, WhiteSpace,
       Member("overall_risk_score", 75 * Unit), Comma,
       Member("risk_level", "high"), Comma,
       Member("emotional_intensity", 85 * Unit), Comma,
       Member("urgency_score", 60 * Unit), Comma,
       Member("ideological_bias", (-20) * Unit), Comma,
       Member("propaganda_techniques",
              << [technique |-> "Appeal to fear", confidence |-> 9],
                 [technique |-> "Bandwagon", confidence |-> 8] >>), Comma,
       Member("emotional_triggers", << [trigger_type |-> "fear"] >>), Comma,
       Member("entity_analysis", [entities |-> << >>]),
       WhiteSpace, RBrace >>

\* The members of the canned record, in order.
MockMembers ==
    LET IsMember(tok) == tok.t = "member" IN SelectSeq(MockContent, IsMember)

\* members joined by commas
RECURSIVE CommaJoin(_)
CommaJoin(members) ==
    IF Len(members) <= 1 THEN members
    ELSE << Head(members), Comma >> \o CommaJoin(Tail(members))

\* The canned technique findings, the first one with the confidence given.
TechniquesWith(confidence) ==
    LET canned == MockMembers[CHOOSE i \in DOMAIN MockMembers :
                                MockMembers[i].key = "propaganda_techniques"].value
    IN  [canned EXCEPT ![1].confidence = confidence]

\* The JSON object that holds the canned members of the keys given, and no
\* other, the first technique finding with the confidence given.
ContentOf(keys, confidence) ==
    LET Kept(tok) == tok.key \in keys
        Written(tok) == IF tok.key = "propaganda_techniques"
                        THEN Member(tok.key, TechniquesWith(confidence))
                        ELSE tok
        kept == SelectSeq(MockMembers, Kept)
    IN  << LBrace >> \o CommaJoin([i \in DOMAIN kept |-> Written(kept[i])])
                    \o << RBrace >>

\* A JSON object wrapped in prose, holding a score and no tier.
ProseWrappedContent ==
    << Prose("Here is the analysis:"), WhiteSpace,
       LBrace, Member("overall_risk_score", 80 * Unit), RBrace,
       WhiteSpace, Prose("Hope this helps.") >>

EmptyObjectContent == << LBrace, RBrace >>

ProseContent == << Prose("I cannot analyze this text.") >>

ScalarContent == << Number(42) >>

ProviderContents ==
    { MockContent, ProseWrappedContent, EmptyObjectContent, ProseContent,
      ScalarContent }

\* Providers of which every one, the mock too, may answer success=False.
Outcomes_fallible(provider) ==
    { [kind |-> "success", content |-> c] : c \in ProviderContents }
        \cup { [kind |-> "failure", content |-> << >>] }

\* What provider.generate can end with.  GroqProvider and OpenRouterProvider
\* catch every exception and answer success=False (llm_service.py 42-93,
\* 102-153); MockLLMProvider always succeeds with its canned content; another
\* implementation may also raise.
Outcomes(provider) ==
    LET Successes == { [kind |-> "success", content |-> c] : c \in ProviderContents }
        Failure == [kind |-> "failure", content |-> << >>]
        Exception == [kind |-> "exception", content |-> << >>]
    IN  CASE provider.cls = "MockLLMProvider" ->
                { [kind |-> "success", content |-> MockContent] }
          [] provider.cls \in { "GroqProvider", "OpenRouterProvider" } ->
                Successes \cup { Failure }
          [] OTHER -> Successes \cup { Failure, Exception }

---------------------------------------------------------------------------
(* What the requests of the whole program carry.                           *)

\* Texts the requests carry (at least 10 characters, app.py 812).
RequestTexts ==
    { Join(<<Vocabulary[1], Vocabulary[2]>>),
      Join(<<Vocabulary[8], Vocabulary[5]>>),
      DenseText }

\* thresholds of the request body: absent, a valid pair, a dict without
\* 'low'.
RequestThresholds == { None, [low |-> 20, medium |-> 50], [medium |-> 50] }

---------------------------------------------------------------------------
(* The gateway sweep: LLMService._generate_with_fallback                   *)
(* (llm_service.py 494-528).  sweep.available is the list computed at      *)
(* line 496, sweep.pos the position of the loop in it, sweep.invoked the   *)
(* providers called so far with what each call ended with.                 *)

NoSweep == [available |-> << >>, pos |-> 0, invoked |-> << >>]

NoProvidersEnvelope ==
    [success |-> FALSE, error |-> "No LLM providers available", content |-> << >>]

AllFailedEnvelope ==
    [success |-> FALSE, error |-> "All LLM providers failed",
     content |-> << Prose("LLM analysis unavailable") >>]

SuccessEnvelope(cls, content) ==
    [success |-> TRUE, content |-> content, provider |-> ProviderName(cls)]

begin_sweep_unguarded(registry) ==
    LET available_providers == get_available_providers(registry)
    IN  IF available_providers = << >>
        THEN [sweep |-> NoSweep, envelope |-> AllFailedEnvelope, returned |-> TRUE]
        ELSE [sweep |-> [available |-> available_providers, pos |-> 1,
                         invoked |-> << >>],
              envelope |-> None, returned |-> FALSE]

\* llm_service.py 496-503: the list is computed once; an empty list ends
\* the call at once.
begin_sweep(registry) ==
    LET available_providers == get_available_providers(registry)
    IN  IF available_providers = << >>
        THEN [sweep |-> NoSweep, envelope |-> NoProvidersEnvelope, returned |-> TRUE]
        ELSE [sweep |-> [available |-> available_providers, pos |-> 1,
                         invoked |-> << >>],
              envelope |-> None, returned |-> FALSE]

sweep_step_propagating(registry, sw, outcome) ==
    LET idx == sw.available[sw.pos]
        invoked == Append(sw.invoked, [provider |-> idx, outcome |-> outcome.kind,
                                       content |-> outcome.content])
        advanced == [sw EXCEPT !.pos = sw.pos + 1, !.invoked = invoked]
    IN  IF outcome.kind = "success"
        THEN [sweep |-> advanced, returned |-> TRUE,
              envelope |-> SuccessEnvelope(registry[idx].cls, outcome.content)]
        ELSE IF outcome.kind = "exception"
        THEN [sweep |-> advanced, returned |-> TRUE, envelope |-> Raised("Exception")]
        ELSE IF sw.pos = Len(sw.available)
        THEN [sweep |-> advanced, returned |-> TRUE, envelope |-> AllFailedEnvelope]
        ELSE [sweep |-> advanced, returned |-> FALSE, envelope |-> None]

\* A loop that starts over after the last provider failed.
sweep_step_restarting(registry, sw, outcome) ==
    LET idx == sw.available[sw.pos]
        invoked == Append(sw.invoked, [provider |-> idx, outcome |-> outcome.kind,
                                       content |-> outcome.content])
        advanced == [sw EXCEPT !.pos = sw.pos + 1, !.invoked = invoked]
    IN  IF outcome.kind = "success"
        THEN [sweep |-> advanced, returned |-> TRUE,
              envelope |-> SuccessEnvelope(registry[idx].cls, outcome.content)]
        ELSE IF sw.pos = Len(sw.available)
        THEN [sweep |-> [sw EXCEPT !.pos = 1, !.invoked = << >>],
              returned |-> FALSE, envelope |-> None]
        ELSE [sweep |-> advanced, returned |-> FALSE, envelope |-> None]

\* One iteration of the loop (llm_service.py 505-522): a success returns
\* its envelope; success=False and an exception both continue with the next
\* provider; after the last one the failure envelope of 524-528 is returned.
sweep_step(registry, sw, outcome) ==
    LET idx == sw.available[sw.pos]
        invoked == Append(sw.invoked, [provider |-> idx, outcome |-> outcome.kind,
                                     content |-> outcome.content])
        advanced == [sw EXCEPT !.pos = sw.pos + 1, !.invoked = invoked]
    IN  IF outcome.kind = "success"
        THEN [sweep |-> advanced, returned |-> TRUE,
              envelope |-> SuccessEnvelope(registry[idx].cls, outcome.content)]
        ELSE IF sw.pos = Len(sw.available)
        THEN [sweep |-> advanced, returned |-> TRUE, envelope |-> AllFailedEnvelope]
        ELSE [sweep |-> advanced, returned |-> FALSE, envelope |-> None]

---------------------------------------------------------------------------
(* The rule-based analysis of one PropagandaDetector.                      *)
(*                                                                         *)
(* A detector is [models_loaded, nlp, sentiment_pipeline, ner_pipeline]:   *)
(* models_loaded as load_models leaves it (app.py 89), and for each model  *)
(* whether the attribute holds one (TRUE) or None (FALSE).                 *)
(* The environment of one run says how the lazy load of the heavy models   *)
(* ends and what the sentiment and NER pipelines do when called.           *)

\* How spacy.load ends inside load_models (app.py 56-62): the model is
\* loaded, the model is missing (OSError: nlp stays None), or it raises
\* another exception, which the outer handler turns into models_loaded =
\* False (app.py 92-94).
SpacyLoads == { "loaded", "missing", "raises" }

NewDetector(spacy_load) ==
    [models_loaded |-> spacy_load # "raises", nlp |-> spacy_load = "loaded",
     sentiment_pipeline |-> FALSE, ner_pipeline |-> FALSE]

\* How spacy.load ended for the detector given: a detector constructed
\* later in the same process meets the same end.
SpacyLoadOf(det) ==
    IF ~det.models_loaded THEN "raises"
    ELSE IF det.nlp THEN "loaded"
    ELSE "missing"

\* What the sentiment pipeline does when called in the runs of the whole
\* program: it raises (None), or answers with max(positive, negative) * 100.
RunSentiments == { None, [base |-> 45 * Unit] }

\* How the lazy load ends (the import of the heavy dependencies fails, the
\* first or the second pipeline fails to load, both load) and, when both
\* are loaded, what the two pipelines do when called.
Environments ==
    { [heavy |-> h, sentiment |-> None, ner_raises |-> TRUE] :
        h \in { "import_fails", "load_fails", "ner_load_fails" } }
    \cup
    { [heavy |-> "loaded", sentiment |-> s, ner_raises |-> n] :
        s \in RunSentiments, n \in BOOLEAN }

\* _ensure_heavy_models_loaded (app.py 96-128): [ok, detector after].
ensure_heavy_models_loaded(det, env) ==
    IF det.sentiment_pipeline /\ det.ner_pipeline THEN [ok |-> TRUE, det |-> det]
    ELSE CASE env.heavy = "import_fails" -> [ok |-> FALSE, det |-> det]
           [] env.heavy = "load_fails" -> [ok |-> FALSE, det |-> det]
           [] env.heavy = "ner_load_fails" ->
                [ok |-> FALSE, det |-> [det EXCEPT !.sentiment_pipeline = TRUE]]
           [] OTHER ->
                [ok |-> TRUE,
                 det |-> [det EXCEPT !.sentiment_pipeline = TRUE,
                                     !.ner_pipeline = TRUE]]

\* analyze_sentiment (app.py 130-161): None when the keyword-only path is
\* taken (models not loaded, or the pipeline raised), else its answer.
SentimentOf(det, env) ==
    IF ensure_heavy_models_loaded(det, env).ok THEN env.sentiment ELSE None

\* An extraction that has the NER pipeline only, and fails without it.
extract_entities_heavy_only(det, env) ==
    LET e == ensure_heavy_models_loaded(det, env)
    IN  IF e.ok /\ ~env.ner_raises THEN "ner_pipeline" ELSE "unavailable"

\* extract_entities: which extractor produced the entity groups.
extract_entities(det, env) ==
    LET e == ensure_heavy_models_loaded(det, env)
    IN  IF e.ok /\ ~env.ner_raises THEN "ner_pipeline"
        ELSE IF det.nlp THEN "spacy"
        ELSE "pattern"

\* The score record of every request text under every answer of the
\* sentiment pipeline, computed once.
ScoreRecords ==
    { [ text |-> t, sentiment |-> s,
        record |-> score_record(SignalOf[t], s, None) ] :
        t \in RequestTexts, s \in RunSentiments }

ScoreRecordOf(text, sentiment) ==
    (CHOOSE r \in ScoreRecords : r.text = text /\ r.sentiment = sentiment).record

\* _rule_based_analysis (app.py 594-645): the result.
rule_based_analysis(det, text, env) ==
    LET rec == ScoreRecordOf(text, SentimentOf(det, env))
    IN  [ overall_score |-> rec.overall_score,
          risk_level |-> rec.risk_level,
          analysis |->
            [ emotional_intensity |-> rec.emotional_intensity,
              ideological_bias |-> rec.ideological_bias,
              urgency_score |-> rec.urgency_score,
              propaganda_techniques |-> rec.propaganda_techniques,
              emotional_analysis |-> rec.emotional_analysis,
              named_entities |-> extract_entities(det, env) ],
          llm_analysis |-> [success |-> FALSE, provider |-> "rule-based"] ]

\* PropagandaDetector.analyze_text with use_llm=False (app.py 572-592).
analyze_text_rule_based(det, text, env) ==
    IF ~det.models_loaded THEN [error |-> "Models not loaded properly"]
    ELSE rule_based_analysis(det, text, env)

\* The detector after that call: the lazy load may have set its pipelines.
detector_after_analysis(det, env) ==
    IF ~det.models_loaded THEN det ELSE ensure_heavy_models_loaded(det, env).det

---------------------------------------------------------------------------
(* The LLM-first orchestrator: analyze_text_comprehensive                  *)
(* (llm_analyzer.py 20-82) and _fallback_analysis (211-239).               *)

EmptyDict == [k \in {} |-> 0]

\* d.get(key, default)
Get(d, key, default) == IF key \in DOMAIN d THEN d[key] ELSE default

\* d[key] = value
SetItem(d, key, value) ==
    [k \in DOMAIN d \cup { key } |-> IF k = key THEN value ELSE d[k]]

FallbackMarker == [success |-> FALSE, provider |-> "fallback", model |-> "rule-based"]

fallback_analysis_unmarked(text, spacy_load, env) ==
    analyze_text_rule_based(NewDetector(spacy_load), text, env)

\* _fallback_analysis: a fresh PropagandaDetector runs the rule-based
\* analysis and the result is marked as the fallback's.
fallback_analysis(text, spacy_load, env) ==
    SetItem(analyze_text_rule_based(NewDetector(spacy_load), text, env),
            "llm_analysis", FallbackMarker)

Truthy_unless_none(v) == v # None

\* Python's truth value of what the parser returned (`if not llm_data`,
\* llm_analyzer.py 35): None, an empty dict, an empty list and zero are
\* false.
Truthy(v) ==
    /\ v # None
    /\ v.type = "dict" => DOMAIN v.items # {}
    /\ v.type = "list" => v.items # << >>
    /\ v.type = "number" => v.value # 0

external_result_strict(comprehensive_analysis, llm_data) ==
    IF { "overall_risk_score", "risk_level", "emotional_intensity", "urgency_score",
         "ideological_bias", "propaganda_techniques", "emotional_triggers",
         "entity_analysis" } \subseteq DOMAIN llm_data
    THEN [ overall_score |-> llm_data["overall_risk_score"],
           risk_level |-> llm_data["risk_level"],
           analysis |->
             [ emotional_intensity |-> llm_data["emotional_intensity"],
               urgency_score |-> llm_data["urgency_score"],
               ideological_bias |-> llm_data["ideological_bias"],
               propaganda_techniques |-> llm_data["propaganda_techniques"],
               emotional_triggers |-> llm_data["emotional_triggers"],
               named_entities |-> llm_data["entity_analysis"]["entities"] ],
           llm_analysis |->
             [ success |-> TRUE,
               provider |-> Get(comprehensive_analysis, "provider", "unknown") ] ]
    ELSE [error |-> "KeyError"]

\* The result built from the provider's record (llm_analyzer.py 39-75):
\* every field is copied from the record, a missing one gets its default.
external_result(comprehensive_analysis, llm_data) ==
    LET entity_analysis == Get(llm_data, "entity_analysis", EmptyDict)
    IN  [ overall_score |-> Get(llm_data, "overall_risk_score", 0),
          risk_level |-> Get(llm_data, "risk_level", "low"),
          analysis |->
            [ emotional_intensity |-> Get(llm_data, "emotional_intensity", 0),
              urgency_score |-> Get(llm_data, "urgency_score", 0),
              ideological_bias |-> Get(llm_data, "ideological_bias", 0),
              propaganda_techniques |-> Get(llm_data, "propaganda_techniques", << >>),
              emotional_triggers |-> Get(llm_data, "emotional_triggers", << >>),
              named_entities |-> Get(entity_analysis, "entities", << >>) ],
          llm_analysis |->
            [ success |-> TRUE,
              provider |-> Get(comprehensive_analysis, "provider", "unknown") ] ]

\* analyze_text_comprehensive once the gateway has returned its envelope
\* (llm_analyzer.py 29-82), fallback being what _fallback_analysis returns
\* for the text.  A parsed value that is no dict has no .get: the
\* AttributeError is caught at line 80 and the fallback runs.
interpret_envelope(comprehensive_analysis, fallback) ==
    LET success == Get(comprehensive_analysis, "success", FALSE)
        parsed == IF success
                  THEN parse_llm_response(Get(comprehensive_analysis, "content", << >>))
                  ELSE Returned(None)
        usable == /\ success
                  /\ ~parsed.raised
                  /\ Truthy(parsed.value)
                  /\ parsed.value.type = "dict"
    IN  IF usable THEN external_result(comprehensive_analysis, parsed.value.items)
        ELSE fallback

analyze_text_comprehensive(comprehensive_analysis, text, spacy_load, env) ==
    interpret_envelope(comprehensive_analysis, fallback_analysis(text, spacy_load, env))

\* The /api/analyze endpoint after detector.analyze_text returned
\* (app.py 828-840): custom thresholds, when given and true, replace the
\* tier; an exception there ends the request with the 500 response.
apply_thresholds(res, thresholds) ==
    IF thresholds # None /\ DOMAIN thresholds # {} /\ "error" \notin DOMAIN res
    THEN LET level == get_risk_level(res.overall_score, thresholds)
         IN  IF level = "KeyError" THEN [error |-> "Internal server error"]
             ELSE [res EXCEPT !.risk_level = level]
    ELSE res

---------------------------------------------------------------------------
(* Comparison of several texts: compare_texts (app.py 647-677),            *)
(* _rule_based_comparison (679-709), generate_comparison_insights          *)
(* (711-790), compare_texts_llm, _generate_basic_comparison and            *)
(* _fallback_comparison (llm_analyzer.py 241-311).                         *)

\* No labels given: None and the empty list are both false for 'if labels'.
NoLabels == << >>

DefaultLabels == << "Text 1", "Text 2", "Text 3", "Text 4", "Text 5" >>

\* labels[i] if labels and i < len(labels) else f"Text {i+1}"
LabelOf(labels, i) ==
    IF labels # NoLabels /\ i <= Len(labels) THEN labels[i] ELSE DefaultLabels[i]

\* The entry goes behind every entry whose score is at least its own.
RECURSIVE InsertByScore(_, _)
InsertByScore(sorted, entry) ==
    IF sorted = << >> THEN << entry >>
    ELSE IF Head(sorted).overall_score >= entry.overall_score
    THEN << Head(sorted) >> \o InsertByScore(Tail(sorted), entry)
    ELSE << entry >> \o sorted

\* list.sort(key=lambda x: x['overall_score'], reverse=True): descending
\* and stable.
RECURSIVE SortByScoreDescending(_)
SortByScoreDescending(entries) ==
    IF entries = << >> THEN << >>
    ELSE InsertByScore(SortByScoreDescending(SubSeq(entries, 1, Len(entries) - 1)),
                       entries[Len(entries)])

\* max(results, key=...) and min(results, key=...): the first result that
\* has the extreme score.
FirstWithScore(results, score) ==
    results[CHOOSE i \in DOMAIN results :
                /\ results[i].overall_score = score
                /\ \A j \in 1..(i - 1) : results[j].overall_score # score]

\* The points two overall scores must differ by, and more, to be reported.
SignificantDifference == 20

\* The key_differences of generate_comparison_insights (app.py 758-772).
key_differences(results) ==
    LET scores == { results[i].overall_score : i \in DOMAIN results }
        max_score == CHOOSE s \in scores : \A o \in scores : s >= o
        min_score == CHOOSE s \in scores : \A o \in scores : s <= o
    IN  IF max_score - min_score > SignificantDifference * Unit
        THEN << [ type |-> "significant_risk_difference",
                  highest |-> FirstWithScore(results, max_score).label,
                  lowest |-> FirstWithScore(results, min_score).label,
                  difference |-> max_score - min_score ] >>
        ELSE << >>

risk_comparison_unsorted(results) ==
    [i \in DOMAIN results |->
        [ label |-> results[i].label,
          overall_score |-> results[i].overall_score,
          risk_level |-> results[i].risk_level ]]

\* The ranking of generate_comparison_insights (app.py 725-734).
risk_comparison(results) ==
    SortByScoreDescending([i \in DOMAIN results |->
        [ label |-> results[i].label,
          overall_score |-> results[i].overall_score,
          risk_level |-> results[i].risk_level ]])

\* The labels all_techniques collects for a technique name (app.py 775-781):
\* the label of a result once for every finding of that name.
labels_of_technique(results, tech_name) ==
    Flatten([i \in DOMAIN results |->
                LET found == SelectSeq(results[i].analysis.propaganda_techniques,
                                       LAMBDA f : f.technique = tech_name)
                IN  [j \in DOMAIN found |-> results[i].label]])

\* The common patterns of generate_comparison_insights (app.py 774-788):
\* the technique names that collected more than one label.
common_patterns(results) ==
    LET all_techniques ==
            UNION { { results[i].analysis.propaganda_techniques[j].technique :
                        j \in DOMAIN results[i].analysis.propaganda_techniques } :
                    i \in DOMAIN results }
        common_techniques ==
            { k \in all_techniques : Len(labels_of_technique(results, k)) > 1 }
    IN  IF common_techniques = {} THEN << >>
        ELSE << [ type |-> "shared_propaganda_techniques",
                  techniques |-> [k \in common_techniques |->
                                     labels_of_technique(results, k)] ] >>

\* generate_comparison_insights (app.py 711-790): the ranking, the
\* per-text tables, the key differences and the common patterns.
generate_comparison_insights(results) ==
    IF Len(results) < 2 THEN EmptyDict
    ELSE [ risk_comparison |-> risk_comparison(results),
           emotional_intensity_comparison |->
               [i \in DOMAIN results |->
                   [ label |-> results[i].label,
                     emotional_intensity |-> results[i].analysis.emotional_intensity,
                     urgency_score |-> results[i].analysis.urgency_score ]],
           bias_comparison |->
               [i \in DOMAIN results |->
                   [ label |-> results[i].label,
                     ideological_bias |-> results[i].analysis.ideological_bias ]],
           propaganda_technique_comparison |->
               [i \in DOMAIN results |->
                   [ label |-> results[i].label,
                     technique_count |->
                         Len(results[i].analysis.propaganda_techniques),
                     unique_techniques |->
                         { results[i].analysis.propaganda_techniques[j].technique :
                             j \in DOMAIN results[i].analysis.propaganda_techniques } ]],
           key_differences |-> key_differences(results),
           common_patterns |-> common_patterns(results) ]

\* _generate_basic_comparison (llm_analyzer.py 288-304): the ranking, read
\* with defaults, and no key difference.
generate_basic_comparison(results) ==
    [ risk_comparison |->
          SortByScoreDescending([i \in DOMAIN results |->
              [ label |-> Get(results[i], "label", "Unknown"),
                overall_score |-> Get(results[i], "overall_score", 0),
                risk_level |-> Get(results[i], "risk_level", "unknown") ]]),
      key_differences |-> << >>,
      common_patterns |-> << >> ]

\* if thresholds: None and the empty dict are false.
ThresholdsGiven(thresholds) == thresholds # None /\ DOMAIN thresholds # {}

\* One text of _rule_based_comparison (app.py 684-702): the labelled
\* analysis, or the error the comparison ends with.  by_rules is what
\* _rule_based_analysis computes on a detector that has its lexicon; a
\* detector whose load_models raised has none: its _rule_based_analysis
\* catches the AttributeError and returns an error.
labelled_analysis(loaded, by_rules, label, thresholds) ==
    LET level == IF loaded /\ ThresholdsGiven(thresholds)
                 THEN get_risk_level(by_rules.overall_score, thresholds)
                 ELSE "unchanged"
    IN  IF ~loaded THEN [error |-> "Failed to analyze"]
        ELSE IF level = "KeyError" THEN [error |-> "Error analyzing"]
        ELSE IF level = "unchanged" THEN SetItem(by_rules, "label", label)
        ELSE SetItem([by_rules EXCEPT !.risk_level = level], "label", label)

\* _rule_based_comparison (app.py 679-709) on a detector whose
\* models_loaded is as given and whose analyses of the texts are by_rules:
\* the first text that fails ends the comparison with its error.
rule_based_comparison(loaded, by_rules, labels, thresholds) ==
    LET results == [i \in DOMAIN by_rules |->
                       labelled_analysis(loaded, by_rules[i], LabelOf(labels, i),
                                         thresholds)]
        failed == { i \in DOMAIN results : "error" \in DOMAIN results[i] }
    IN  IF failed # {}
        THEN results[CHOOSE i \in failed : \A j \in failed : i <= j]
        ELSE [ individual_results |-> results,
               comparison_insights |-> generate_comparison_insights(results) ]

\* _fallback_analysis (llm_analyzer.py 211-239) of a fresh detector whose
\* models_loaded is as given and whose analysis of the text is by_rules.
fallback_of(loaded, by_rules) ==
    SetItem(IF loaded THEN by_rules ELSE [error |-> "Models not loaded properly"],
            "llm_analysis", FallbackMarker)

\* compare_texts_llm (llm_analyzer.py 241-286).  envelopes[i] is what the
\* gateway answers for text i and comparison what it answers for the
\* comparison prompt; loaded and by_rules are those of the fresh detectors
\* the fallbacks construct.  The prompt reads labels[i] for every text when
\* labels is given: a shorter list raises IndexError, and
\* _fallback_comparison (306-311) has a fresh detector compare the texts by
\* the rules, without thresholds.
compare_texts_llm(labels, envelopes, comparison, loaded, by_rules) ==
    LET results == [i \in DOMAIN by_rules |->
                       SetItem(interpret_envelope(envelopes[i],
                                                  fallback_of(loaded, by_rules[i])),
                               "label", LabelOf(labels, i))]
        prompt_raises == labels # NoLabels /\ Len(labels) < Len(by_rules)
    IN  IF prompt_raises
        THEN rule_based_comparison(loaded, by_rules, labels, None)
        ELSE [ individual_results |-> results,
               llm_comparison_insights |->
                   parse_llm_response(Get(comparison, "content",
                                          EmptyObjectContent)).value,
               comparison_insights |-> generate_basic_comparison(results) ]

\* The custom thresholds of compare_texts on the external path
\* (app.py 662-667): every individual result that has a score gets its tier
\* anew; a KeyError ends the comparison.
rethreshold(res, thresholds) ==
    IF "individual_results" \notin DOMAIN res \/ ~ThresholdsGiven(thresholds)
    THEN res
    ELSE LET Level(r) == IF "overall_score" \in DOMAIN r
                         THEN get_risk_level(r.overall_score, thresholds)
                         ELSE "unchanged"
             results == res.individual_results
         IN  IF \E i \in DOMAIN results : Level(results[i]) = "KeyError"
             THEN [error |-> "Comparison failed"]
             ELSE [res EXCEPT !.individual_results =
                      [i \in DOMAIN results |->
                          IF Level(results[i]) = "unchanged" THEN results[i]
                          ELSE SetItem(results[i], "risk_level",
                                       Level(results[i]))]]

\* The most texts one comparison takes (app.py 652).
MaxTexts == 5

\* compare_texts past its two guards, the rule-based analyses of the texts
\* given: those of the detector itself when use_llm is false, else those of
\* the fresh detectors of the fallbacks.
compare_analysed(labels, use_llm, thresholds, envelopes, comparison, loaded, by_rules) ==
    IF use_llm
    THEN rethreshold(compare_texts_llm(labels, envelopes, comparison, loaded, by_rules),
                     thresholds)
    ELSE rule_based_comparison(loaded, by_rules, labels, thresholds)

\* compare_texts (app.py 647-677) on the detector given.
compare_texts(det, texts, labels, use_llm, thresholds, envelopes, comparison, env) ==
    IF Len(texts) < 2 THEN [error |-> "At least 2 texts required for comparison"]
    ELSE IF Len(texts) > MaxTexts
    THEN [error |-> "Maximum 5 texts allowed for comparison"]
    ELSE compare_analysed(labels, use_llm, thresholds, envelopes, comparison,
                          det.models_loaded,
                          [i \in DOMAIN texts |->
                              rule_based_analysis(
                                  IF use_llm THEN NewDetector(SpacyLoadOf(det)) ELSE det,
                                  texts[i], env)])

---------------------------------------------------------------------------
(* What the comparisons checked carry.                                     *)

\* The most texts of the comparisons checked.
MaxCompared == 3

\* A provider's record that holds the overall score given, in points.
ScoredContent(points) ==
    << LBrace, Member("overall_risk_score", points * Unit), RBrace >>

\* A text of a comparison with what the gateway answers for it.
ComparedTexts ==
    { [text |-> Join(<<Vocabulary[1], Vocabulary[2]>>), envelope |-> AllFailedEnvelope],
      [text |-> DenseText,
       envelope |-> SuccessEnvelope("GroqProvider", ScoredContent(80))],
      [text |-> Join(<<Vocabulary[8], Vocabulary[5]>>),
       envelope |-> SuccessEnvelope("GroqProvider", ScoredContent(40))],
      [text |-> Join(<<Vocabulary[1], Vocabulary[2]>>),
       envelope |-> SuccessEnvelope("GroqProvider", ScoredContent(10))] }

ComparisonEnvironments ==
    { [heavy |-> "import_fails", sentiment |-> None, ner_raises |-> TRUE],
      [heavy |-> "loaded", sentiment |-> [base |-> 45 * Unit], ner_raises |-> FALSE] }

\* Overall scores of the results generate_comparison_insights is applied
\* to, in points.
ComparedScores == { 10, 30, 31, 80 }

CompareInputs ==
    { [op |-> "compare_texts",
       in |-> [compared |-> c, labels |-> l, use_llm |-> u, thresholds |-> th,
               spacy_load |-> s, env |-> e, comparison |-> k]] :
        c \in UNION { [1..n -> ComparedTexts] : n \in 1..MaxCompared },
        l \in { NoLabels, << "A" >> },
        u \in BOOLEAN,
        th \in { None, [medium |-> 50], [low |-> 20, medium |-> 50] },
        s \in SpacyLoads,
        e \in ComparisonEnvironments,
        k \in { AllFailedEnvelope, SuccessEnvelope("MockLLMProvider", MockContent) } }
    \cup
    { [op |-> "generate_comparison_insights", in |-> [scores |-> s]] :
        s \in UNION { [1..n -> ComparedScores] : n \in 2..MaxCompared } }

---------------------------------------------------------------------------
(* The program: one analysis request at a time, from the endpoint to its   *)
(* response.                                                               *)

NoRequest == [text |-> << >>, use_llm |-> FALSE, thresholds |-> None]

\* No _generate_with_fallback call beside the request's own.
NoCalls == << >>

NoCall == [op |-> "none", in |-> None, done |-> TRUE, out |-> None]

\* The service has started: the module-level detector was constructed and
\* its load_models ended with models_loaded = True.
Init ==
    /\ providers \in Registries
    /\ detector \in { NewDetector(s) : s \in SpacyLoads \ { "raises" } }
    /\ current_provider_index = 0
    /\ calls = NoCalls
    /\ pc = "idle"
    /\ request = NoRequest
    /\ sweep = NoSweep
    /\ envelope = None
    /\ result = None
    /\ call = NoCall

\* POST /api/analyze with use_llm false: the module-level detector runs the
\* rule-based analysis, loading its heavy models on the way.
AnalyzeRuleBased ==
    /\ pc = "idle"
    /\ \E text \in RequestTexts, thresholds \in RequestThresholds, env \in Environments :
         /\ request' = [text |-> text, use_llm |-> FALSE, thresholds |-> thresholds]
         /\ result' = apply_thresholds(analyze_text_rule_based(detector, text, env),
                                       thresholds)
         /\ detector' = detector_after_analysis(detector, env)
    /\ pc' = "done"
    /\ UNCHANGED << providers, sweep, envelope, call,
                    current_provider_index, calls >>

\* POST /api/analyze with use_llm true, up to the first line of the gateway
\* sweep: analyze_text -> analyze_text_comprehensive ->
\* analyze_comprehensive_single_call -> _generate_with_fallback.
AnalyzeExternal ==
    /\ pc = "idle"
    /\ \E text \in RequestTexts, thresholds \in RequestThresholds :
         request' = [text |-> text, use_llm |-> TRUE, thresholds |-> thresholds]
    /\ IF ~detector.models_loaded
       THEN /\ result' = [error |-> "Models not loaded properly"]
            /\ pc' = "done"
            /\ UNCHANGED << sweep, envelope >>
       ELSE LET b == begin_sweep(providers)
            IN  /\ sweep' = b.sweep
                /\ envelope' = b.envelope
                /\ pc' = IF b.returned THEN "interpret" ELSE "gateway"
                /\ UNCHANGED result
    /\ UNCHANGED << providers, detector, call,
                    current_provider_index, calls >>

\* One provider.generate call of the sweep.
ProviderGenerate ==
    /\ pc = "gateway"
    /\ \E outcome \in Outcomes(providers[sweep.available[sweep.pos]]) :
         LET s == sweep_step(providers, sweep, outcome)
         IN  /\ sweep' = s.sweep
             /\ envelope' = s.envelope
             /\ pc' = IF s.returned THEN "interpret" ELSE "gateway"
    /\ UNCHANGED << providers, detector, request, result, call,
                    current_provider_index, calls >>

\* The orchestrator reads the envelope and builds the result; the endpoint
\* applies the thresholds.
Interpret ==
    /\ pc = "interpret"
    /\ \E env \in Environments :
         result' = apply_thresholds(
                       analyze_text_comprehensive(envelope, request.text,
                                                  SpacyLoadOf(detector), env),
                       request.thresholds)
    /\ pc' = "done"
    /\ UNCHANGED << providers, detector, request, sweep, envelope, call,
                    current_provider_index, calls >>

\* The response is sent; the request's data is dropped.
Respond ==
    /\ pc = "done"
    /\ pc' = "idle"
    /\ request' = NoRequest
    /\ sweep' = NoSweep
    /\ envelope' = None
    /\ result' = None
    /\ UNCHANGED << providers, detector, call,
                    current_provider_index, calls >>

Next ==
    \/ AnalyzeRuleBased
    \/ AnalyzeExternal
    \/ ProviderGenerate
    \/ Interpret
    \/ Respond

Spec == Init /\ [][Next]_vars

\* One request is sequential code: once in the gateway it goes on to the
\* next provider call, and once the envelope is there it is interpreted.
\* The second condition is WF_vars(Interpret), with ENABLED <<Interpret>>_vars
\* written as the guard it amounts to, pc = "interpret".
SpecLive ==
    /\ Init /\ [][Next]_vars
    /\ WF_vars(ProviderGenerate)
    /\ ([]<>(pc # "interpret") \/ []<><<Interpret>>_vars)
---------------------------------------------------------------------------
(* The gateway under concurrent requests: each caller runs its own         *)
(* _generate_with_fallback (llm_service.py 494-528) on the one LLMService  *)
(* of the process, its steps interleaved with the other callers' steps.    *)
(* available_providers, the loop position and the returned envelope are    *)
(* locals of the call.                                                     *)

\* The most calls in flight at once.
MaxCalls == 2

Callers == 1..MaxCalls

IdleCall == [pc |-> "idle", sweep |-> NoSweep, envelope |-> None]

\* The registries of the concurrent runs: the service as constructed, and
\* registries of MaxProviders providers of another implementation.
SweepRegistries ==
    { DefaultProviders(g, o) : g \in BOOLEAN, o \in BOOLEAN }
    \cup [1..MaxProviders -> { Provider("LLMProvider", a) : a \in BOOLEAN }]

\* What a provider's generate ends with, one content for every success.
SweepOutcomes(provider) ==
    { o \in Outcomes(provider) : o.kind = "success" => o.content = MockContent }

InitSweeps ==
    /\ providers \in SweepRegistries
    /\ current_provider_index = 0
    /\ calls = [c \in Callers |-> IdleCall]
    /\ detector = NewDetector("missing")
    /\ pc = "idle"
    /\ request = NoRequest
    /\ sweep = NoSweep
    /\ envelope = None
    /\ result = None
    /\ call = NoCall

\* The caller enters _generate_with_fallback: lines 496-503.
CallBegin(c) ==
    /\ calls[c].pc = "idle"
    /\ LET b == begin_sweep(providers)
       IN  calls' = [calls EXCEPT ![c] =
                        [pc |-> IF b.returned THEN "returned" ELSE "sweeping",
                         sweep |-> b.sweep, envelope |-> b.envelope]]
    /\ UNCHANGED << providers, current_provider_index, detector, pc, request,
                    sweep, envelope, result, call >>

\* One provider.generate of the caller's loop: lines 505-528.
CallGenerate(c) ==
    /\ calls[c].pc = "sweeping"
    /\ \E outcome \in SweepOutcomes(providers[calls[c].sweep.available[calls[c].sweep.pos]]) :
         LET s == sweep_step(providers, calls[c].sweep, outcome)
         IN  calls' = [calls EXCEPT ![c] =
                          [pc |-> IF s.returned THEN "returned" ELSE "sweeping",
                           sweep |-> s.sweep, envelope |-> s.envelope]]
    /\ UNCHANGED << providers, current_provider_index, detector, pc, request,
                    sweep, envelope, result, call >>

\* The caller has its envelope; the locals of the call are gone.
CallReturn(c) ==
    /\ calls[c].pc = "returned"
    /\ calls' = [calls EXCEPT ![c] = IdleCall]
    /\ UNCHANGED << providers, current_provider_index, detector, pc, request,
                    sweep, envelope, result, call >>

NextSweeps ==
    \E c \in Callers :
        \/ CallBegin(c)
        \/ CallGenerate(c)
        \/ CallReturn(c)

SpecSweeps == InitSweeps /\ [][NextSweeps]_vars


---------------------------------------------------------------------------
(* find_keyword_positions (app.py 266-276), one turn of its loop a step.   *)

\* Longest text and longest keyword the positions are searched in.
MaxTextLen == 4
MaxKeywordLen == 2

Alphabet == { "a", "b" }

SearchTexts == UNION { [1..n -> Alphabet] : n \in 0..MaxTextLen }

SearchKeywords == UNION { [1..n -> Alphabet] : n \in 1..MaxKeywordLen }

\* text.find(keyword, start): the lowest index from start on, counted from
\* 0, at which keyword occurs, or -1.
str_find(text, keyword, start) ==
    LET hits == { i \in start..Len(text) : OccursAt(text, keyword, i + 1) }
    IN  IF hits = {} THEN -1
        ELSE CHOOSE i \in hits : \A j \in hits : i <= j

\* A search that resumes past the whole match, as str.count does.
resume_past_match(pos, keyword) == pos + Len(keyword)

\* start = pos + 1 (line 275)
resume(pos, keyword) == pos + 1

InitPositions ==
    /\ \E t \in SearchTexts, k \in SearchKeywords :
         call = [op |-> "find_keyword_positions", in |-> [text |-> t, keyword |-> k],
                 start |-> 0, positions |-> << >>, done |-> FALSE, out |-> None]
    /\ providers = DefaultProviders(FALSE, FALSE)
    /\ detector = NewDetector("missing")
    /\ current_provider_index = 0
    /\ calls = NoCalls
    /\ pc = "idle"
    /\ request = NoRequest
    /\ sweep = NoSweep
    /\ envelope = None
    /\ result = None

\* One turn that finds the keyword: lines 271-275.
FindAppend ==
    /\ ~call.done
    /\ LET pos == str_find(call.in.text, call.in.keyword, call.start)
       IN  /\ pos # -1
           /\ call' = [call EXCEPT
                          !.positions = Append(@, [start |-> pos,
                                                   end |-> pos + Len(call.in.keyword)]),
                          !.start = resume(pos, call.in.keyword)]
    /\ UNCHANGED progvars

\* The turn that finds no more: lines 271-273 and the return of line 276.
FindReturn ==
    /\ ~call.done
    /\ str_find(call.in.text, call.in.keyword, call.start) = -1
    /\ call' = [call EXCEPT !.done = TRUE, !.out = call.positions]
    /\ UNCHANGED progvars

NextPositions ==
    \/ FindAppend
    \/ FindReturn

\* The loop is sequential code: a turn that can be taken is taken.
SpecPositions == InitPositions /\ [][NextPositions]_vars /\ WF_vars(NextPositions)
---------------------------------------------------------------------------
(* The pure functions, applied: Init draws the inputs, an action applies   *)
(* the function to them.                                                   *)

InitPure ==
    /\ \E i \in PureInputs \cup CompareInputs :
         call = [op |-> i.op, in |-> i.in, done |-> FALSE, out |-> None]
    /\ providers = DefaultProviders(FALSE, FALSE)
    /\ detector = NewDetector("missing")
    /\ current_provider_index = 0
    /\ calls = NoCalls
    /\ pc = "idle"
    /\ request = NoRequest
    /\ sweep = NoSweep
    /\ envelope = None
    /\ result = None

Apply(op, out) ==
    /\ call.op = op
    /\ ~call.done
    /\ call' = [call EXCEPT !.done = TRUE, !.out = out]
    /\ UNCHANGED progvars

ApplyRiskLevel ==
    Apply("get_risk_level", get_risk_level(call.in.score, call.in.thresholds))

\* The contribution at the count drawn, at the count before it and at the
\* cap of 3.
ApplyWeighted ==
    Apply("weighted_score",
          [ at |-> weighted_score(call.in.weight, call.in.count, call.in.decay),
            before |-> weighted_score(call.in.weight, Max(call.in.count - 1, 0),
                                      call.in.decay),
            at_cap |-> weighted_score(call.in.weight, 3, call.in.decay) ])

ApplyScoreRecord ==
    Apply("score_record",
          score_record(SignalOf[call.in.text], call.in.sentiment, None))

ApplyOverallScore ==
    Apply("calculate_overall_score",
          LET sig == SignalOf[call.in.text]
          IN  calculate_overall_score(call.in.emotional_intensity,
                                      call.in.bias_score, call.in.urgency_score,
                                      detect_propaganda_techniques(sig),
                                      analyze_emotional_triggers(sig)))

\* The findings of the types drawn, in the order of the severity table,
\* each type found as often as drawn, with the static confidence.
FindingsOf(types, findings) ==
    LET Drawn(i) == technique_weights[i].technique \in types
        kept == SelectSeq([i \in DOMAIN technique_weights |-> i], Drawn)
    IN  [k \in 1..(Len(kept) * findings) |->
            [ technique |-> Chars(technique_weights[kept[((k - 1) % Len(kept)) + 1]].technique),
              confidence |-> StaticConfidence ]]

ApplyPropagandaRisk ==
    Apply("calculate_propaganda_risk_score",
          calculate_propaganda_risk_score(FindingsOf(call.in.types, call.in.findings)))

\* compare_texts applied to the texts drawn, on a detector constructed as
\* drawn.
ApplyCompare ==
    Apply("compare_texts",
          compare_texts(NewDetector(call.in.spacy_load),
                        [i \in DOMAIN call.in.compared |-> call.in.compared[i].text],
                        call.in.labels, call.in.use_llm, call.in.thresholds,
                        [i \in DOMAIN call.in.compared |->
                            call.in.compared[i].envelope],
                        call.in.comparison, call.in.env))

\* generate_comparison_insights applied to results that have the scores
\* drawn, in order, each with its default label and tier.
ApplyInsights ==
    Apply("generate_comparison_insights",
          generate_comparison_insights(
              [i \in DOMAIN call.in.scores |->
                  [ label |-> DefaultLabels[i],
                    overall_score |-> call.in.scores[i] * Unit,
                    risk_level |-> get_risk_level(call.in.scores[i] * Unit, None),
                    analysis |-> [ emotional_intensity |-> 0, urgency_score |-> 0,
                                   ideological_bias |-> 0,
                                   propaganda_techniques |-> << >> ] ]]))

\* The orchestrator applied to the successful envelope of a provider whose
\* record holds the fields drawn.
ApplyComprehensive ==
    Apply("analyze_text_comprehensive",
          analyze_text_comprehensive(SuccessEnvelope("GroqProvider",
                                                     ContentOf(call.in.fields,
                                                               call.in.confidence)),
                                     DenseText, "missing",
                                     [heavy |-> "import_fails", sentiment |-> None,
                                      ner_raises |-> TRUE]))

ApplyParse ==
    Apply("parse_llm_response", parse_llm_response(call.in.content))

NextPure ==
    \/ ApplyComprehensive
    \/ ApplyPropagandaRisk
    \/ ApplyCompare
    \/ ApplyInsights
    \/ ApplyParse
    \/ ApplyRiskLevel
    \/ ApplyWeighted
    \/ ApplyScoreRecord
    \/ ApplyOverallScore

SpecPure == InitPure /\ [][NextPure]_vars

---------------------------------------------------------------------------
(* Properties.                                                             *)

\* The registry indices of the providers that report available.
AvailableIndices == { i \in DOMAIN providers : providers[i].available }

\* The request in flight went through the gateway and the gateway returned.
GatewayReturned == request.use_llm /\ pc \in { "interpret", "done" }

\* Low if score < low, medium if low <= score < medium, high otherwise;
\* thresholds in points.
TierOf(score, low, medium) ==
    IF score < low * Unit THEN "low"
    ELSE IF score < medium * Unit THEN "medium"
    ELSE "high"

\* res is what the rule-based path produces for text, marked as the
\* deterministic fallback.
IsFallbackOf(res, text) ==
    /\ "error" \notin DOMAIN res
    /\ res.llm_analysis.success = FALSE
    /\ res.llm_analysis.provider = "fallback"
    /\ \E s \in RunSentiments :
         LET rec == score_record(SignalOf[text], s, None)
         IN  /\ res.overall_score = rec.overall_score
             /\ res.risk_level = rec.risk_level
             /\ res.analysis.emotional_intensity = rec.emotional_intensity
             /\ res.analysis.urgency_score = rec.urgency_score
             /\ res.analysis.ideological_bias = rec.ideological_bias
             /\ res.analysis.propaganda_techniques = rec.propaganda_techniques
    /\ res.analysis.named_entities \in { "ner_pipeline", "spacy", "pattern" }

ParsedNullOrEmpty ==
    LET parsed == parse_llm_response(envelope.content)
    IN  \/ parsed.value = None
        \/ parsed.value = PyDict(EmptyDict)

\* C2: whenever the gateway returned a failure envelope, or the parser
\* answered null or an empty record for the provider's content, the request
\* ends with the rule-based result marked as fallback: without an error and
\* with every score and field as the rule-based path computes it from the
\* text.
C2_FailureOrNullFallsBack ==
    (pc = "done" /\ request.use_llm /\ request.thresholds = None
        /\ (~envelope.success \/ ParsedNullOrEmpty))
    => IsFallbackOf(result, request.text)

C2_Witness ==
    /\ pc = "done" /\ request.use_llm /\ request.thresholds = None
    /\ envelope.success
    /\ envelope.content = EmptyObjectContent
    /\ result.llm_analysis.provider = "fallback"
    /\ result.overall_score > 0

\* C3: the gateway sweep invokes only available providers, in registry
\* order, each at most once and none skipped; it invokes none after a
\* success and returns that success's envelope; a failure and an exception
\* both make it go on to the next provider, so a failure envelope is
\* returned only after every available provider was invoked, and what is
\* returned is always an envelope, never a provider's exception.
C3_SweepOrderAndFirstSuccess ==
    (request.use_llm /\ pc \in { "gateway", "interpret", "done" }) =>
        LET inv == sweep.invoked
            n == Len(inv)
        IN  /\ \A k \in 1..n : inv[k].provider \in AvailableIndices
            /\ \A j, k \in 1..n : j < k => inv[j].provider < inv[k].provider
            /\ \A k \in 1..n : \A i \in AvailableIndices :
                    i < inv[k].provider => \E j \in 1..(k - 1) : inv[j].provider = i
            /\ \A k \in 1..(n - 1) : inv[k].outcome # "success"
            /\ pc = "gateway" => (n < Cardinality(AvailableIndices)
                                    /\ \A k \in 1..n : inv[k].outcome # "success")
            /\ pc # "gateway" =>
                /\ "success" \in DOMAIN envelope
                /\ IF n > 0 /\ inv[n].outcome = "success"
                   THEN /\ envelope.success
                        /\ envelope.content = inv[n].content
                        /\ envelope.provider = ProviderName(providers[inv[n].provider].cls)
                   ELSE /\ ~envelope.success
                        /\ n = Cardinality(AvailableIndices)

C3_Witness ==
    /\ pc = "interpret"
    /\ Len(sweep.invoked) = 2
    /\ sweep.invoked[1].outcome = "exception"
    /\ sweep.invoked[2].outcome = "success"
    /\ envelope.success
    /\ Cardinality(AvailableIndices) = 3

\* C4 as stated: when no provider is available or every available provider
\* has failed, the gateway returns a failure envelope whose content is the
\* empty string.
C4_FailureContentEmpty ==
    (GatewayReturned
        /\ \A k \in DOMAIN sweep.invoked : sweep.invoked[k].outcome # "success")
    => (~envelope.success /\ envelope.content = << >>)

\* C4, amended: the gateway returns a failure envelope in both cases; its
\* content is the empty string when no provider is available and the text
\* "LLM analysis unavailable" when every available provider has failed.
C4_FailureEnvelopeContent ==
    (GatewayReturned
        /\ \A k \in DOMAIN sweep.invoked : sweep.invoked[k].outcome # "success")
    => /\ ~envelope.success
       /\ AvailableIndices = {} => envelope.content = << >>
       /\ AvailableIndices # {} =>
            envelope.content = << Prose("LLM analysis unavailable") >>

C4_Witness ==
    /\ pc = "interpret"
    /\ Len(sweep.invoked) >= 2
    /\ \A k \in DOMAIN sweep.invoked : sweep.invoked[k].outcome # "success"
    /\ ~envelope.success

\* The pure function op has been applied to the inputs drawn.
Applied(op) == call.op = op /\ call.done

\* C5: _parse_llm_response never raises to its caller: for every content it
\* returns null or the value parsed from the content, and it returns null
\* whenever the text it hands to json.loads cannot be parsed.
C5_ParserNeverRaises ==
    Applied("parse_llm_response") =>
        LET loaded == JsonLoads(JsonCandidate(call.in.content))
        IN  /\ ~call.out.raised
            /\ call.out.value = None
                \/ call.out.value.type \in { "dict", "number", "list" }
            /\ ~loaded.ok => call.out.value = None

\* Unbalanced braces around a member: json.loads fails and null is returned.
C5_Witness ==
    /\ Applied("parse_llm_response")
    /\ Len(call.in.content) >= 2
    /\ call.in.content[1] = LBrace
    /\ call.in.content[Len(call.in.content)] # RBrace
    /\ \E i \in DOMAIN call.in.content : call.in.content[i] = RBrace
    /\ call.out = Returned(None)

InInterval(x, lo, hi) == lo * Unit <= x /\ x <= hi * Unit

\* C6: every sub-score of the Score Composer lies in its closed interval
\* (emotional intensity, urgency and propaganda risk in [0,100], ideological
\* bias in [-100,100], combination bonus in [0,40]), and the overall score
\* lies in [0,100] for every combination of sub-scores in those intervals.
C6_ScoresInRange ==
    /\ Applied("score_record") =>
        /\ InInterval(call.out.emotional_intensity, 0, 100)
        /\ InInterval(call.out.urgency_score, 0, 100)
        /\ InInterval(call.out.propaganda_risk, 0, 100)
        /\ InInterval(call.out.ideological_bias, -100, 100)
        /\ InInterval(call.out.combination_bonus, 0, 40)
        /\ InInterval(call.out.overall_score, 0, 100)
    /\ Applied("calculate_overall_score") => InInterval(call.out, 0, 100)

\* A text whose urgency contributions add up to more than 100 points.
C6_Witness ==
    /\ Applied("score_record")
    /\ UrgencySum(SignalOf[call.in.text]) > 100 * Unit
    /\ call.out.urgency_score = 100 * Unit

\* C7: in every analysis result returned, on the external path as on the
\* rule-based one, risk_level is the tier of that result's overall_score
\* under the thresholds in force: the request's, or 34/67 without any.
C7_RiskLevelIsTierOfScore ==
    (pc = "done" /\ "error" \notin DOMAIN result) =>
        LET th == IF request.thresholds = None THEN DefaultThresholds
                  ELSE request.thresholds
        IN  result.risk_level = TierOf(result.overall_score, th.low, th.medium)

\* C8: get_risk_level is low below the low threshold, medium from the low
\* threshold up to but not including the medium one, and high from the
\* medium threshold on; with the default thresholds a score of exactly 34
\* is medium and a score of exactly 67 is high.
C8_TierBoundaries ==
    (Applied("get_risk_level")
        /\ (call.in.thresholds = None \/ Keys \subseteq DOMAIN call.in.thresholds))
    => LET th == call.in.thresholds
           score == call.in.score
       IN  /\ th # None => call.out = TierOf(score, th.low, th.medium)
           /\ th = None => call.out = TierOf(score, 34, 67)
           /\ (th = None /\ score = 34 * Unit) => call.out = "medium"
           /\ (th = None /\ score = 67 * Unit) => call.out = "high"

C8_Witness ==
    /\ Applied("get_risk_level")
    /\ call.in.thresholds = None
    /\ call.in.score = 34 * Unit
    /\ call.out = "medium"

\* A thresholds override that lacks a key or is not strictly increasing.
Malformed(thresholds) ==
    /\ thresholds # None
    /\ \/ ~(Keys \subseteq DOMAIN thresholds)
       \/ thresholds.low >= thresholds.medium

\* C9: a malformed thresholds override is ignored: the tier is the one the
\* default thresholds 34/67 give, never an error.
C9_MalformedThresholdsIgnored ==
    (Applied("get_risk_level") /\ Malformed(call.in.thresholds))
    => call.out = TierOf(call.in.score, 34, 67)

\* C10: the contribution weight * min(count, 3) * decay^max(0, count - 1)
\* does not decrease when the count grows up to 3, and for every count
\* above 3 it equals the contribution at count 3.
C10_ContributionMonotoneThenFlat ==
    Applied("weighted_score") =>
        /\ (1 <= call.in.count /\ call.in.count <= 3) => call.out.before <= call.out.at
        /\ call.in.count > 3 => call.out.at = call.out.at_cap

\* C11: for a text that holds the bandwagon keyword 'everyone' and the
\* call-to-action keyword 'act now' twice each, the rule-based path gives a
\* combination bonus of at least the 12 points of the pair (call_to_action,
\* urgency) and a propaganda risk above zero.
C11_PressureTacticsBonus ==
    (Applied("score_record")
        /\ SignalOf[call.in.text].count["everyone"] = 2
        /\ SignalOf[call.in.text].count["act now"] = 2)
    => /\ call.out.combination_bonus >= 12 * Unit
       /\ call.out.propaganda_risk > 0

\* The value the canned record holds for a key.
MockValue(key) ==
    IF key = "propaganda_techniques" THEN TechniquesWith(call.in.confidence)
    ELSE MockMembers[CHOOSE i \in DOMAIN MockMembers : MockMembers[i].key = key].value

\* C12: on the external path, whatever subset of the top-level fields the
\* parsed record lacks, the result is an external result without an error
\* in which every absent field has its default (0 for the four numeric
\* scores, 'low' for the tier, the empty sequence for the three lists) and
\* every present field the record's value.
C12_AbsentFieldsDefault ==
    (Applied("analyze_text_comprehensive") /\ call.in.fields # {}) =>
        LET S == call.in.fields
            Field(key, default) == IF key \in S THEN MockValue(key) ELSE default
        IN  /\ "error" \notin DOMAIN call.out
            /\ call.out.llm_analysis.success
            /\ call.out.overall_score = Field("overall_risk_score", 0)
            /\ call.out.risk_level = Field("risk_level", "low")
            /\ call.out.analysis.emotional_intensity = Field("emotional_intensity", 0)
            /\ call.out.analysis.urgency_score = Field("urgency_score", 0)
            /\ call.out.analysis.ideological_bias = Field("ideological_bias", 0)
            /\ call.out.analysis.propaganda_techniques
                    = Field("propaganda_techniques", << >>)
            /\ call.out.analysis.emotional_triggers = Field("emotional_triggers", << >>)
            /\ call.out.analysis.named_entities = << >>

C12_Witness ==
    /\ Applied("analyze_text_comprehensive")
    /\ call.in.fields = { "emotional_intensity" }
    /\ call.out.llm_analysis.success
    /\ call.out.overall_score = 0
    /\ call.out.risk_level = "low"
    /\ call.out.analysis.emotional_intensity = 85 * Unit
    /\ call.out.analysis.propaganda_techniques = << >>

\* C12 as stated, the record that lacks every field included: that record
\* is the empty one, and the empty record takes the fallback path.
C12_AbsentFieldsDefaultAlways ==
    Applied("analyze_text_comprehensive") =>
        /\ "error" \notin DOMAIN call.out
        /\ call.out.llm_analysis.success
        /\ "overall_risk_score" \notin call.in.fields => call.out.overall_score = 0
        /\ "emotional_intensity" \notin call.in.fields
                => call.out.analysis.emotional_intensity = 0
        /\ "propaganda_techniques" \notin call.in.fields
                => call.out.analysis.propaganda_techniques = << >>

\* C13: every technique finding of a returned external result has its
\* confidence in [0,1] (0..10 tenths), whatever confidence the provider
\* wrote in its record.
C13_ConfidenceClamped ==
    (Applied("analyze_text_comprehensive") /\ "error" \notin DOMAIN call.out) =>
        \A i \in DOMAIN call.out.analysis.propaganda_techniques :
            LET finding == call.out.analysis.propaganda_techniques[i]
            IN  finding.confidence >= 0 /\ finding.confidence <= 10

\* The results a comparison ranks: those of compare_texts, or those
\* generate_comparison_insights was applied to.
Ranked ==
    IF call.op = "compare_texts" THEN call.out.individual_results
    ELSE [i \in DOMAIN call.in.scores |->
             [label |-> DefaultLabels[i], overall_score |-> call.in.scores[i] * Unit]]

\* A comparison was applied and answered with its insights.
Compared ==
    \/ Applied("generate_comparison_insights")
    \/ Applied("compare_texts") /\ "individual_results" \in DOMAIN call.out

Insights ==
    IF call.op = "compare_texts" THEN call.out.comparison_insights ELSE call.out

\* C14: the risk ranking of a comparison has one entry for every analysed
\* text, with that text's label and overall score (0 for a result without
\* one), and is ordered by non-increasing overall score, on the external
\* path and on the rule-based one.
C14_RankingSortedAndComplete ==
    Compared =>
        LET ranking == Insights.risk_comparison
        IN  /\ Len(ranking) = Len(Ranked)
            /\ \A i \in DOMAIN Ranked :
                 Cardinality({ k \in DOMAIN ranking :
                                 /\ ranking[k].label = Ranked[i].label
                                 /\ ranking[k].overall_score
                                        = Get(Ranked[i], "overall_score", 0) }) = 1
            /\ \A k \in 1..(Len(ranking) - 1) :
                 ranking[k].overall_score >= ranking[k + 1].overall_score

\* Three texts scored 10, 80 and 40 by the provider are ranked 80, 40, 10;
\* and three rule-based results that are not in order are ranked too.
C14_Witness ==
    /\ Applied("compare_texts")
    /\ call.in.use_llm
    /\ "individual_results" \in DOMAIN call.out
    /\ Len(call.out.individual_results) = 3
    /\ call.out.individual_results[1].overall_score = 10 * Unit
    /\ call.out.individual_results[2].overall_score = 80 * Unit
    /\ call.out.individual_results[3].overall_score = 40 * Unit
    /\ call.out.comparison_insights.risk_comparison[1].overall_score = 80 * Unit
    /\ call.out.comparison_insights.risk_comparison[2].overall_score = 40 * Unit
    /\ call.out.comparison_insights.risk_comparison[3].overall_score = 10 * Unit
    /\ call.out.comparison_insights.risk_comparison[1].label = "Text 2"

\* C15: a comparison reports a significant-difference insight exactly when
\* the highest overall score of the compared texts exceeds the lowest by
\* more than 20 points, and then one insight only, which names the
\* highest-scoring and the lowest-scoring text, on the external path and on
\* the rule-based one.
C15_SignificantDifferenceReported ==
    Compared =>
        LET scores == { Get(Ranked[i], "overall_score", 0) : i \in DOMAIN Ranked }
            max_score == CHOOSE s \in scores : \A o \in scores : s >= o
            min_score == CHOOSE s \in scores : \A o \in scores : s <= o
            reported == Insights.key_differences
        IN  IF max_score - min_score > 20 * Unit
            THEN /\ Len(reported) = 1
                 /\ \E i, j \in DOMAIN Ranked :
                      /\ Get(Ranked[i], "overall_score", 0) = max_score
                      /\ Get(Ranked[j], "overall_score", 0) = min_score
                      /\ reported[1].highest = Ranked[i].label
                      /\ reported[1].lowest = Ranked[j].label
            ELSE reported = << >>

\* C16: a comparison that answers with individual results has no analysis
\* error among them: when the analysis of one text fails outright the
\* comparison answers with one error and no individual results.
C16_NoPartialResults ==
    (Applied("compare_texts") /\ "individual_results" \in DOMAIN call.out) =>
        \A i \in DOMAIN call.out.individual_results :
            "error" \notin DOMAIN call.out.individual_results[i]

\* The sweep of caller c is its own: it invoked the available providers in
\* registry order from the first one, none skipped, none after a success;
\* and once it returned, its envelope is the one its own invocations give.
OwnFreshSweep(c) ==
    LET inv == calls[c].sweep.invoked
        n == Len(inv)
    IN  /\ \A k \in 1..n :
             /\ inv[k].provider \in AvailableIndices
             /\ Cardinality({ i \in AvailableIndices : i < inv[k].provider }) = k - 1
        /\ \A k \in 1..(n - 1) : inv[k].outcome # "success"
        /\ calls[c].pc = "sweeping" => n < Cardinality(AvailableIndices)
        /\ calls[c].pc = "returned" =>
             IF n > 0 /\ inv[n].outcome = "success"
             THEN calls[c].envelope
                    = SuccessEnvelope(providers[inv[n].provider].cls, inv[n].content)
             ELSE /\ ~calls[c].envelope.success
                  /\ n = Cardinality(AvailableIndices)

\* C17: under every interleaving of concurrent _generate_with_fallback
\* calls, each call sweeps the available providers from the highest-priority
\* one on, its envelope depends on its own invocations only, and no step of
\* any call changes current_provider_index or the providers list.
C17_SweepsStateless ==
    /\ [](\A c \in DOMAIN calls : calls[c].pc # "idle" => OwnFreshSweep(c))
    /\ [][/\ current_provider_index' = current_provider_index
          /\ providers' = providers]_vars

\* One caller is at its third provider when the other has just invoked the
\* first one.
C17_Witness ==
    /\ DOMAIN calls # {}
    /\ calls[1].pc = "sweeping"
    /\ calls[1].sweep.pos = 3
    /\ calls[2].pc = "returned"
    /\ Len(calls[2].sweep.invoked) = 1
    /\ calls[2].sweep.invoked[1].provider = calls[1].sweep.invoked[1].provider
    /\ calls[2].envelope.success
    /\ current_provider_index = 0

\* C18: no step of an analysis, with use_llm true or false, changes a field
\* of the module-level detector (its model handles sentiment_pipeline,
\* ner_pipeline and nlp, models_loaded) or the provider list.
C18_NoSharedStateWritten ==
    [][detector' = detector /\ providers' = providers]_vars

\* C19: _parse_llm_response answers null only when both attempts fail: the
\* parse of the substring from the first '{' to the last '}', and the parse
\* of the whole trimmed text; when the substring fails and the whole text
\* is valid, it answers with the value of the whole text.
C19_WholeTextSecondAttempt ==
    Applied("parse_llm_response") =>
        LET whole == JsonLoads(strip(call.in.content))
            candidate == JsonLoads(JsonCandidate(call.in.content))
        IN  /\ (~candidate.ok /\ whole.ok) => call.out = Returned(whole.value)
            /\ call.out.value = None => (~candidate.ok /\ ~whole.ok)

\* C20: calculate_propaganda_risk_score answers 0 for no finding, and else
\* the sum of severity weight times confidence, multiplied by 1.2 when 3 or
\* 4 distinct technique types are found and by 1.4 when 5 or more are, then
\* capped at 100; fewer than 3 distinct types leave the sum as it is.
C20_DiversityMultiplier ==
    Applied("calculate_propaganda_risk_score") =>
        LET distinct_types == Cardinality(call.in.types)
            weights == [i \in DOMAIN technique_weights |->
                           IF technique_weights[i].technique \in call.in.types
                           THEN technique_weights[i].weight * call.in.findings
                           ELSE 0]
            sum == SumSeq(weights) * StaticConfidence * (Unit \div 10)
            tenths == IF distinct_types >= 5 THEN 14
                      ELSE IF distinct_types >= 3 THEN 12
                      ELSE 10
        IN  call.out = Min((sum * tenths) \div 10, 100 * Unit)


---------------------------------------------------------------------------
(* The combination bonus, the keyword-only intensity and the urgency.      *)

\* The sum of the bonuses of the dangerous-combination entries whose every
\* technique is among the findings.
TableBonus(found) ==
    LET Detected(t) ==
            \E i \in DOMAIN found :
                found[i].technique = title(replace(Chars(t), "_", " "))
        Whole(combo) == \A c \in DOMAIN combo.techniques : Detected(combo.techniques[c])
    IN  SumSeq([i \in DOMAIN dangerous_combos |->
                   IF Whole(dangerous_combos[i]) THEN dangerous_combos[i].bonus
                   ELSE 0])

\* The number of emotional-trigger categories that are not empty.
TriggerCategories(emotional_analysis) ==
    Cardinality({ c \in {"fear_appeals", "urgency_markers", "emotional_language",
                         "psychological_pressure"} :
                    emotional_analysis[c] # << >> })

\* C21: on the deterministic path every entry of the dangerous-combination
\* table adds its bonus to the combination bonus exactly when each of its
\* techniques is among the findings of detect_propaganda_techniques (the
\* sum, with the trigger-diversity bonus, is clamped to 40).
C21_CombinationTableAwarded ==
    (Applied("score_record") /\ call.out.propaganda_techniques # << >>) =>
        LET diversity ==
                IF TriggerCategories(call.out.emotional_analysis) >= 3
                THEN TriggerDiversityBonus ELSE 0
        IN  call.out.combination_bonus =
                Min(TableBonus(call.out.propaganda_techniques) + diversity,
                    CombinationCap) * Unit

\* The table bonuses as calculate_combination_risk adds them up.
CombosAwarded(techniques) ==
    LET technique_names ==
            [i \in DOMAIN techniques |-> lower(techniques[i].technique)]
    IN  SumSeq([i \in DOMAIN dangerous_combos |->
                   IF ComboPresent(dangerous_combos[i], technique_names)
                   THEN dangerous_combos[i].bonus ELSE 0])

\* C22: whenever at least 3 of the 4 emotional-trigger categories of a text
\* are non-empty, the combination bonus includes 10 points next to the table
\* bonuses (the sum is clamped to 40); with fewer than 3 non-empty
\* categories the 10 points are not added.
C22_TriggerDiversityBonus ==
    Applied("score_record") =>
        LET combos == CombosAwarded(call.out.propaganda_techniques)
            diversity ==
                IF TriggerCategories(call.out.emotional_analysis) >= 3
                THEN TriggerDiversityBonus ELSE 0
        IN  call.out.combination_bonus = Min(combos + diversity, CombinationCap) * Unit

\* C23: without a sentiment model the emotional intensity is the base
\* min(15 * matched keywords, 100) plus the weighted score of each of the
\* nine lexicon categories, clamped to 100: a text that matches a lexicon
\* keyword and has a base below 100 has an intensity above its base.
C23_KeywordOnlyIntensityEnhanced ==
    (Applied("score_record") /\ call.in.sentiment = None) =>
        LET sig == SignalOf[call.in.text]
            base == basic_emotional_analysis(sig).base_sentiment_intensity
            matched == \E i \in DOMAIN bias_keywords :
                           MatchCount(bias_keywords[i].keywords, sig) > 0
        IN  /\ call.out.emotional_intensity =
                   calculate_enhanced_emotional_intensity(sig, base)
            /\ (matched /\ base < 100 * Unit) => call.out.emotional_intensity > base

\* C24: the urgency score is min(100, sum over the three urgency tiers of
\* weight * min(c, 3) * 0.9^max(0, c - 1)), c being the match count of the
\* whole tier: the diminishing returns apply once per tier, so two keywords
\* of a tier matched once each count as one keyword matched twice.
C24_UrgencyPerTier ==
    Applied("score_record") =>
        LET sig == SignalOf[call.in.text]
            TierCount(category) ==
                LET ks == KeywordsOf(category)
                IN  SumSeq([i \in DOMAIN ks |-> sig.count[ks[i]]])
            OfTier(category) ==
                IF TierCount(category) > 0
                THEN weighted_score(UrgencyWeight(category), TierCount(category),
                                    UrgencyDecay)
                ELSE 0
        IN  call.out.urgency_score =
                Min(SumSeq([i \in DOMAIN UrgencyCategories |->
                               OfTier(UrgencyCategories[i])]),
                    100 * Unit)

---------------------------------------------------------------------------
(* The shared techniques of a comparison.                                  *)

\* A comparison by the rules answered with its insights.
ComparedByRules ==
    /\ Applied("compare_texts")
    /\ ~call.in.use_llm
    /\ "individual_results" \in DOMAIN call.out

\* The technique names the insights report as shared.
ReportedShared ==
    LET patterns == call.out.comparison_insights.common_patterns
    IN  IF patterns = << >> THEN {} ELSE DOMAIN patterns[1].techniques

\* The technique names found in at least 2 distinct texts of the comparison.
FoundInTwoTexts ==
    LET results == call.out.individual_results
        NamesOf(i) == { results[i].analysis.propaganda_techniques[j].technique :
                          j \in DOMAIN results[i].analysis.propaganda_techniques }
    IN  { k \in UNION { NamesOf(i) : i \in DOMAIN results } :
            \E i, j \in DOMAIN results : i # j /\ k \in NamesOf(i) /\ k \in NamesOf(j) }

\* C25: the insights of a comparison report a technique as shared exactly
\* when it was found in at least 2 distinct texts of the comparison: a
\* technique found in one text only, through however many keywords, is not
\* reported.
C25_SharedInTwoTexts ==
    ComparedByRules => ReportedShared = FoundInTwoTexts

---------------------------------------------------------------------------
(* The positions of a keyword.                                             *)

\* find_keyword_positions has returned.
PositionsReturned == call.op = "find_keyword_positions" /\ call.done

\* The positions returned are those of every occurrence, in ascending order.
PositionsExact ==
    LET positions == call.out
        keyword == call.in.keyword
        occurrences == { i \in 0..Len(call.in.text) :
                           OccursAt(call.in.text, keyword, i + 1) }
    IN  /\ \A p \in DOMAIN positions :
               positions[p].end = positions[p].start + Len(keyword)
        /\ \A p, q \in DOMAIN positions :
               p < q => positions[p].start < positions[q].start
        /\ { positions[p].start : p \in DOMAIN positions } = occurrences

\* C26: find_keyword_positions(text, keyword) returns, in ascending order
\* and without duplicates, exactly the positions {start: i, end: i +
\* len(keyword)} of every index i at which keyword occurs in text,
\* overlapping occurrences included, and it returns for every text and
\* every non-empty keyword.
C26_AllPositionsAndTermination ==
    /\ [](PositionsReturned => PositionsExact)
    /\ <>PositionsReturned

\* The search has returned two occurrences that overlap.
C26_Witness ==
    /\ PositionsReturned
    /\ Len(call.out) >= 2
    /\ call.out[2].start < call.out[1].end

---------------------------------------------------------------------------
(* The deterministic path and the heavy resources.                         *)

\* The request at hand was answered by _rule_based_analysis: asked for
\* without the providers, or as the fallback of the orchestrator.
AnsweredByRules ==
    /\ pc = "done"
    /\ request.thresholds = None
    /\ \/ ~request.use_llm
       \/ "llm_analysis" \in DOMAIN result /\ result.llm_analysis = FallbackMarker

---------------------------------------------------------------------------
(* The default registry and its mock.                                      *)

\* The registry is the default one: Groq, OpenRouter, then the mock.
DefaultRegistry == \E g, o \in BOOLEAN : providers = DefaultProviders(g, o)

\* An external request without thresholds was answered under the default
\* registry.
AnsweredUnderDefaultRegistry ==
    /\ DefaultRegistry
    /\ pc = "done"
    /\ request.use_llm
    /\ request.thresholds = None

\* Both real providers are unavailable or were invoked and failed.
RealProvidersOut ==
    \A i \in 1..2 :
        \/ ~providers[i].available
        \/ \E k \in DOMAIN sweep.invoked :
               sweep.invoked[k].provider = i /\ sweep.invoked[k].outcome # "success"

---------------------------------------------------------------------------
(* The rule-based path and the gateway.                                    *)

\* C29: the rule-based path never invokes a provider: a request without
\* the providers has no sweep at all, and the orchestrator's fallback runs
\* the rule-based analysis on the envelope it has, leaving the sweep as it
\* is and ending the request; each provider is invoked at most once per
\* request, and every request that entered the gateway is answered.
C29_RulesInvokeNoProvider ==
    /\ []((pc = "done" /\ ~request.use_llm) => (sweep = NoSweep /\ envelope = None))
    /\ []((request # NoRequest /\ request.use_llm) =>
             Len(sweep.invoked) <= Cardinality(AvailableIndices))
    /\ [][pc = "interpret" => (pc' = "done" /\ sweep' = sweep /\ envelope' = envelope)]_vars
    /\ (pc \in { "gateway", "interpret" }) ~> (pc = "done")

\* The fallback answered a request after a sweep in which two providers
\* were invoked.
C29_Witness ==
    /\ pc = "done"
    /\ request.use_llm
    /\ "llm_analysis" \in DOMAIN result
    /\ result.llm_analysis = FallbackMarker
    /\ "error" \notin DOMAIN result
    /\ Len(sweep.invoked) >= 2

---------------------------------------------------------------------------
(* The tiers of the risk ranking.                                          *)

\* C30: in every result of compare, with or without thresholds of the
\* caller and with or without the providers, each entry of the risk ranking
\* of the insights has the risk_level of the individual result that has
\* its label.
C30_RankingTierIsResultTier ==
    (Applied("compare_texts") /\ "individual_results" \in DOMAIN call.out) =>
        LET results == call.out.individual_results
            ranking == call.out.comparison_insights.risk_comparison
        IN  \A e \in DOMAIN ranking : \A i \in DOMAIN results :
                (results[i].label = ranking[e].label
                    /\ "risk_level" \in DOMAIN results[i]) =>
                    ranking[e].risk_level = results[i].risk_level
===========================================================================
